---- MODULE Spec2Model ----
(***************************************************************************)
(* SynonymSeeker backend: the guess-resolution and session-state engine of *)
(* GameBuilderAgent (backend/src/game_builder_agent.py) together with the  *)
(* request models of backend/src/models.py.                                *)
(*                                                                         *)
(* Strings are sequences of one-character strings.  A handler is a small   *)
(* step machine over a call frame; the step function is the single model   *)
(* of the handler's code.  Spec runs every call to completion in one       *)
(* action (calls do not overlap); ConcSpec lets two threads take the same  *)
(* steps one at a time against the shared store.                           *)
(***************************************************************************)
EXTENDS Integers, Sequences, FiniteSets, TLC

VARIABLES
    sessions,      \* GameBuilderAgent.sessions: session id -> GameSession
    last_cleanup,  \* GameBuilderAgent.last_cleanup
    now,           \* the wall clock read by time.time(), in seconds
    response,      \* what the latest finished call returned (or raised)
    frames         \* the call frames of the calls in progress

vars == <<sessions, last_cleanup, now, response, frames>>

-----------------------------------------------------------------------------
(* Bounds of the model *)

\* submissions counted over the whole store before the model stops guessing
MaxGuesses == 4
\* the same for the store with a running clock
MaxStoreGuesses == 1
\* clock advances
MaxTicks == 2
\* longest generated word handed to validate_guess
MaxWordLen == 4

-----------------------------------------------------------------------------
(* Characters and strings *)

LowerLetters == {"a","b","c","d","e","f","g","h","i","j","k","l","m",
                 "n","o","p","q","r","s","t","u","v","w","x","y","z"}
UpperLetters == {"H", "A", "P", "Y"}

\* str.lower() on one character
LowerChar(c) ==
    CASE c = "H" -> "h"
      [] c = "A" -> "a"
      [] c = "P" -> "p"
      [] c = "Y" -> "y"
      [] OTHER -> c

\* str.isalpha() on one character
IsAlphaChar(c) == c \in LowerLetters \cup UpperLetters

Lower(s) == [i \in 1..Len(s) |-> LowerChar(s[i])]

RECURSIVE LStrip(_)
LStrip(s) == IF s # <<>> /\ Head(s) = " " THEN LStrip(Tail(s)) ELSE s
RECURSIVE RStrip(_)
RStrip(s) ==
    IF s # <<>> /\ s[Len(s)] = " " THEN RStrip(SubSeq(s, 1, Len(s) - 1)) ELSE s
\* str.strip()
Strip(s) == RStrip(LStrip(s))

\* str.isalpha(): non-empty and every character a letter
IsAlpha(s) == s # <<>> /\ \A i \in 1..Len(s) : IsAlphaChar(s[i])

\* sub in s
Contains(s, sub) ==
    \E k \in 0..(Len(s) - Len(sub)) : SubSeq(s, k + 1, k + Len(sub)) = sub

HasChar(s, cs) == \E i \in 1..Len(s) : s[i] \in cs

\* s.replace(c, "") for a one-character c
RemoveChar(s, c) == SelectSeq(s, LAMBDA x : x # c)

\* x in list
InList(x, list) == \E i \in 1..Len(list) : list[i] = x

Abs(n) == IF n < 0 THEN -n ELSE n

-----------------------------------------------------------------------------
(* The words of the model *)

happy    == <<"h","a","p","p","y">>
joyful   == <<"j","o","y","f","u","l">>
cheerful == <<"c","h","e","e","r","f","u","l">>
glad     == <<"g","l","a","d">>
pleased  == <<"p","l","e","a","s","e","d">>
joyfull  == <<"j","o","y","f","u","l","l">>
wrong    == <<"w","r","o","n","g">>
bad      == <<"b","a","d">>
Happy    == <<"H","a","p","p","y">>
glad1    == <<"g","l","a","d","1">>
so_glad  == <<"s","o"," ","g","l","a","d">>
blank    == <<" ">>
digits   == <<"1","2">>
tagged   == <<"<","g","l","a","d",">">>
drop     == <<"d","r","o","p">>

\* GuessRequest: "Input too long (maximum 50 characters)"
MaxInputLen == 50
too_long == [i \in 1..(MaxInputLen + 1) |-> "a"]

-----------------------------------------------------------------------------
(* models.py: GuessRequest *)

\* the bracket and shell characters of suspicious_patterns (the backquote, which
\* no input of the model holds, is left out)
SuspiciousChars == {"<", ">", "{", "}", "[", "]", "\\", ";", "|", "&", "$"}

SuspiciousKeywords ==
    { <<"s","c","r","i","p","t">>,
      <<"j","a","v","a","s","c","r","i","p","t">>,
      <<"e","v","a","l">>,
      <<"f","u","n","c","t","i","o","n">>,
      <<"s","e","l","e","c","t">>,
      <<"i","n","s","e","r","t">>,
      <<"u","p","d","a","t","e">>,
      <<"d","e","l","e","t","e">>,
      <<"d","r","o","p">> }

\* GuessRequest._sanitize_guess
_sanitize_guess(guess) ==
    IF guess = <<>> THEN <<>>
    ELSE SelectSeq(Lower(Strip(guess)), IsAlphaChar)

\* GuessRequest._validate_input: the ValueError it raises, or "ok"
_validate_input(original, sanitized) ==
    IF original = <<>> \/ Strip(original) = <<>> THEN "Guess cannot be empty"
    ELSE IF HasChar(Strip(original), {" "}) THEN "Please enter only one word"
    ELSE IF Len(original) > MaxInputLen THEN "Input too long (maximum 50 characters)"
    ELSE IF \/ HasChar(original, SuspiciousChars)
            \/ \E kw \in SuspiciousKeywords : Contains(Lower(original), kw)
         THEN "Invalid characters detected in input"
    ELSE IF sanitized = <<>> THEN "Guess must contain at least one letter"
    ELSE IF Len(sanitized) > MaxInputLen THEN "Word too long (maximum 50 letters)"
    ELSE IF Len(sanitized) < 1 THEN "Word too short (minimum 1 letter)"
    ELSE IF ~IsAlpha(sanitized) THEN "Word must contain only letters"
    ELSE "ok"

\* GuessRequest.__post_init__: the request built from the caller's text, or
\* the ValueError raised instead of a request
GuessRequest(session_id, guess) ==
    IF session_id = "" THEN [error |-> "Session ID cannot be empty", guess |-> <<>>]
    ELSE [error |-> _validate_input(guess, _sanitize_guess(guess)),
          guess |-> _sanitize_guess(guess)]

\* a completion test that is satisfied by one found slot
is_complete_some_found(session) ==
    \E i \in 1..Len(session.synonyms) : session.synonyms[i].found

\* GameSession.is_complete
is_complete(session) ==
    \A i \in 1..Len(session.synonyms) : session.synonyms[i].found

-----------------------------------------------------------------------------
(* game_builder_agent.py: guess validation *)

\* number of positions of the shorter word at which the two words differ
Mismatches(long, short) ==
    Cardinality({i \in 1..Len(short) : i > Len(long) \/ long[i] # short[i]})

\* a close match that allows three differences
_is_close_match_within_three(guess, target) ==
    IF Abs(Len(guess) - Len(target)) > 3 THEN FALSE
    ELSE LET long  == IF Len(guess) < Len(target) THEN target ELSE guess
             short == IF Len(guess) < Len(target) THEN guess ELSE target
         IN  Mismatches(long, short) + (Len(long) - Len(short)) <= 3

\* GameBuilderAgent._is_close_match
_is_close_match(guess, target) ==
    IF Abs(Len(guess) - Len(target)) > 2 THEN FALSE
    ELSE LET long  == IF Len(guess) < Len(target) THEN target ELSE guess
             short == IF Len(guess) < Len(target) THEN guess ELSE target
         IN  IF Mismatches(long, short) > 2 THEN FALSE
             ELSE Mismatches(long, short) + (Len(long) - Len(short)) <= 2

\* a validation without the test for the target word
validate_guess_without_exclusion(guess, target_word, synonyms) ==
    LET guess_lower   == Strip(Lower(guess))
        synonym_words == [i \in 1..Len(synonyms) |-> Lower(synonyms[i])]
    IN  \/ InList(guess_lower, synonym_words)
        \/ \E i \in 1..Len(synonym_words) :
              _is_close_match(guess_lower, synonym_words[i])

\* a validation that accepts every guess
validate_guess_always(guess, target_word, synonyms) == TRUE

\* GameBuilderAgent.validate_guess; synonyms is the list of synonym words
validate_guess(guess, target_word, synonyms) ==
    LET guess_lower   == Strip(Lower(guess))
        target_lower  == Strip(Lower(target_word))
        synonym_words == [i \in 1..Len(synonyms) |-> Lower(synonyms[i])]
    IN  IF guess_lower = target_lower THEN FALSE
        ELSE IF InList(guess_lower, synonym_words) THEN TRUE
        ELSE \E i \in 1..Len(synonym_words) :
                 _is_close_match(guess_lower, synonym_words[i])

\* GameBuilderAgent._sanitize_and_validate_guess: the ValueError it raises
\* ("ok" when it returns) and the text it returns
_sanitize_and_validate_guess(guess) ==
    LET sanitized == Strip(guess)
    IN  IF guess = <<>> THEN [error |-> "Guess is required", guess |-> <<>>]
        ELSE IF sanitized = <<>> THEN [error |-> "Guess cannot be empty", guess |-> <<>>]
        ELSE IF Len(sanitized) > MaxInputLen
             THEN [error |-> "Guess is too long (maximum 50 characters)", guess |-> <<>>]
        ELSE IF HasChar(sanitized, {" "})
             THEN [error |-> "Please enter only one word", guess |-> <<>>]
        ELSE IF ~IsAlpha(RemoveChar(RemoveChar(sanitized, "-"), "'"))
             THEN [error |-> "Please use only letters", guess |-> <<>>]
        ELSE [error |-> "ok", guess |-> sanitized]

-----------------------------------------------------------------------------
(* game_builder_agent.py: the hint fallback chain *)

\* What the two network-backed strategies do in one call: "raise" (not
\* configured, unreachable, malformed answer), "hang" (the service never
\* answers, so the call raises when its timeout expires), "" or " " (an
\* empty or blank answer) or the text the hint service sent.
HintEnvs ==
    { [a2a |-> "raise", http |-> "raise"],
      [a2a |-> "raise", http |-> ""],
      [a2a |-> "raise", http |-> "http hint"],
      [a2a |-> "",      http |-> "raise"],
      [a2a |-> "a2a hint", http |-> "raise"] }

\* GameBuilderAgent._generate_fallback_hint
_generate_fallback_hint(guess, target_word) ==
    IF Len(guess) < 3 THEN "fallback: too short"
    ELSE IF Lower(guess) = Lower(target_word) THEN "fallback: target word"
    ELSE "fallback: not a synonym"

\* GameBuilderAgent._generate_emergency_fallback_hint
_generate_emergency_fallback_hint(guess, target_word) ==
    LET guess_clean  == SubSeq(SelectSeq(guess, IsAlphaChar), 1, 20)
        target_clean == SubSeq(SelectSeq(target_word, IsAlphaChar), 1, 20)
    IN  IF guess_clean = <<>> \/ target_clean = <<>> THEN "emergency: enter a valid word"
        ELSE IF Lower(guess_clean) = Lower(target_clean) THEN "emergency: target word"
        ELSE IF Len(guess_clean) < 3 THEN "emergency: quite short"
        ELSE "emergency: category hint"

\* the loop body's test of a strategy's result: it raised, or what it
\* returned is not a string with something other than whitespace in it
Failed(result) == result \in {"raise", "hang", "", " "}

\* a list of strategies with the direct call first
hint_methods_http_first(guess, target_word, env) ==
    << env.http, env.a2a, _generate_fallback_hint(guess, target_word) >>

\* the strategies of hint_methods, in order, as what each returns or "raise"
hint_methods(guess, target_word, env) ==
    << env.a2a, env.http, _generate_fallback_hint(guess, target_word) >>

\* the loop of request_hint_analysis from strategy k on: the first result that
\* is a non-empty string, else the emergency hint; tried counts the strategies run
RECURSIVE hint_loop(_, _, _, _)
hint_loop(methods, k, guess, target_word) ==
    IF k > Len(methods)
    THEN [hint |-> _generate_emergency_fallback_hint(guess, target_word), tried |-> k]
    ELSE IF ~Failed(methods[k])
         THEN [hint |-> methods[k], tried |-> k]
         ELSE hint_loop(methods, k + 1, guess, target_word)

\* GameBuilderAgent.request_hint_analysis
request_hint_analysis(guess, target_word, env) ==
    IF guess = <<>> \/ target_word = <<>> \/ Strip(guess) = <<>> \/ Strip(target_word) = <<>>
    THEN [hint |-> "Please enter a valid word to get a hint.", tried |-> 0]
    ELSE hint_loop(hint_methods(Strip(guess), Strip(target_word), env), 1,
                   Strip(guess), Strip(target_word))

-----------------------------------------------------------------------------
(* game_builder_agent.py: sessions and the store *)

ACTIVE    == "active"
COMPLETED == "completed"
GIVEN_UP  == "given-up"

\* slot.word is None
NoWord == <<>>
\* the session has no _last_activity attribute
NoActivity == -1

\* a field of a stored session that was set to None, and a field that was
\* deleted from the session object
NullStatus    == "null"
MissingStatus == "missing"
NullCount     == -1
MissingCount  == -2
NullList      == << <<"null">> >>
MissingList   == << <<"missing">> >>
\* an entry of session.synonyms that is None
NullSlot == [word |-> NoWord, letter_count |-> 0, found |-> FALSE]

HasNullSlot(session) ==
    \E i \in 1..Len(session.synonyms) : session.synonyms[i] = NullSlot
\* the index of the first entry of session.synonyms that is None, 0 without one
FirstNull(session) ==
    IF ~HasNullSlot(session) THEN 0
    ELSE CHOOSE i \in 1..Len(session.synonyms) :
            /\ session.synonyms[i] = NullSlot
            /\ \A j \in 1..(i - 1) : session.synonyms[j] # NullSlot

\* self.session_cleanup_interval, and session_timeout of the sweep
session_cleanup_interval == 30 * 60
session_timeout == 30 * 60

\* the curated word set of target "happy" and _recover_session_synonyms' table
CuratedHappy == << joyful, cheerful, glad, pleased >>
\* the hidden synonyms of _create_emergency_game
EmergencySynonyms == << glad, joyful, pleased, cheerful >>
\* the curated word set of target "big"
big      == <<"b","i","g">>
large    == <<"l","a","r","g","e">>
huge     == <<"h","u","g","e">>
enormous == <<"e","n","o","r","m","o","u","s">>
massive  == <<"m","a","s","s","i","v","e">>
CuratedBig == << large, huge, enormous, massive >>

\* a GameSession as start_new_game / _create_emergency_game construct it
NewSession(target_word, words, activity) ==
    [ target_word     |-> target_word,
      synonyms        |-> [i \in 1..Len(words) |->
                              [word |-> NoWord, letter_count |-> Len(words[i]),
                               found |-> FALSE]],
      guess_count     |-> 0,
      status          |-> ACTIVE,
      guessed_words   |-> <<>>,
      actual_synonyms |-> words,
      last_activity   |-> activity ]

\* GameBuilderAgent._recover_session_synonyms
_recover_session_synonyms(session) ==
    IF Lower(session.target_word) = happy THEN CuratedHappy
    ELSE IF Lower(session.target_word) = big THEN CuratedBig
    ELSE << <<"w","o","r","d","1">>, <<"w","o","r","d","2">>,
            <<"w","o","r","d","3">>, <<"w","o","r","d","4">> >>

\* a snapshot that shows the hidden synonym of every slot
_get_game_state_dict_revealing(session) ==
    [ targetWord   |-> session.target_word,
      synonyms     |-> [i \in 1..Len(session.synonyms) |->
                           [word        |-> session.actual_synonyms[i],
                            letterCount |-> session.synonyms[i].letter_count,
                            found       |-> session.synonyms[i].found]],
      guessCount   |-> session.guess_count,
      status       |-> session.status,
      guessedWords |-> session.guessed_words ]

\* GameBuilderAgent._get_game_state_dict, on a session without a None slot
_get_game_state_dict(session) ==
    [ targetWord   |-> session.target_word,
      synonyms     |-> [i \in 1..Len(session.synonyms) |->
                           [word        |-> session.synonyms[i].word,
                            letterCount |-> session.synonyms[i].letter_count,
                            found       |-> session.synonyms[i].found]],
      guessCount   |-> session.guess_count,
      status       |-> IF session.status = NullStatus THEN "CORRUPTED" ELSE session.status,
      guessedWords |-> session.guessed_words ]

\* game_state={} of the not-found and generic-error responses
EmptyState == [empty |-> TRUE]

\* The store is the pair of the agent's fields the handlers read and write.
Store(ss, lc) == [sessions |-> ss, last_cleanup |-> lc]

\* GameBuilderAgent._cleanup_expired_sessions at clock t
_cleanup_expired_sessions(st, t) ==
    IF t - st.last_cleanup < session_cleanup_interval THEN st
    ELSE LET expired == {id \in DOMAIN st.sessions :
                            /\ st.sessions[id].last_activity # NoActivity
                            /\ t - st.sessions[id].last_activity > session_timeout}
         IN  Store([id \in (DOMAIN st.sessions) \ expired |->
                       IF st.sessions[id].last_activity = NoActivity
                       THEN [st.sessions[id] EXCEPT !.last_activity = t]
                       ELSE st.sessions[id]],
                   t)

\* a corrupted session that is left in the store
Discard_kept(st, session_id) == st

\* a removal that takes every session with it
Discard_all(st, session_id) == Store(<< >>, st.last_cleanup)

\* del self.sessions[session_id] of _get_session_with_recovery
Discard(st, session_id) ==
    Store([id \in (DOMAIN st.sessions) \ {session_id} |-> st.sessions[id]],
          st.last_cleanup)

\* GameBuilderAgent._get_session_with_recovery at clock t: the store it leaves
\* and whether it returned the session
_get_session_with_recovery(st, session_id, t) ==
    LET swept == _cleanup_expired_sessions(st, t)
    IN  IF session_id = "" \/ session_id \notin DOMAIN swept.sessions
        THEN [store |-> swept, found |-> FALSE]
        ELSE LET session == swept.sessions[session_id]
             IN  IF session.target_word = <<>> \/ Len(session.synonyms) # 4
                 THEN [store |-> Discard(swept, session_id), found |-> FALSE]
                 ELSE [store |-> Store(
                          [swept.sessions EXCEPT ![session_id] =
                              [session EXCEPT
                                  !.last_activity = t,
                                  !.status = IF @ = MissingStatus THEN ACTIVE ELSE @,
                                  !.guess_count = IF @ = MissingCount THEN 0 ELSE @,
                                  !.guessed_words = IF @ = MissingList THEN << >> ELSE @,
                                  !.actual_synonyms =
                                      IF @ = <<>> THEN _recover_session_synonyms(session)
                                      ELSE @]],
                          swept.last_cleanup),
                       found |-> TRUE]

-----------------------------------------------------------------------------
(* Call frames.  A frame holds a call's arguments and local variables; pc is *)
(* the next piece of the handler to run.  Between two steps another thread   *)
(* may run: every step reads or writes the shared session at most once,      *)
(* apart from the fetch and the response snapshot, which are taken whole.    *)

NoHint == "None"

IdleFrame ==
    [ op |-> "idle", pc |-> "idle", sid |-> "", guess |-> <<>>, tmp |-> 0,
      slot |-> 0, kind |-> "", hint |-> NoHint, env |-> [a2a |-> "raise", http |-> "raise"],
      validated |-> FALSE, hinted |-> FALSE, game_state |-> EmptyState ]

\* the frame of submit_guess(request) entered with request.guess = guess
SubmitFrame(session_id, guess, env) ==
    [IdleFrame EXCEPT !.op = "submit_guess", !.pc = "fetch", !.sid = session_id,
                      !.guess = guess, !.env = env]

\* the frame of give_up(session_id)
GiveUpFrame(session_id) ==
    [IdleFrame EXCEPT !.op = "give_up", !.pc = "fetch", !.sid = session_id]

Put(st, session_id, session) ==
    Store([st.sessions EXCEPT ![session_id] = session], st.last_cleanup)

Goto(st, f, pc) == [store |-> st, frame |-> [f EXCEPT !.pc = pc]]

\* leave through a return statement whose GuessResponse is of the given kind
Return(st, f, kind) == [store |-> st, frame |-> [f EXCEPT !.pc = "respond", !.kind = kind]]

\* an exception that leaves the handler
Raise_uncaught(st, f) == [store |-> st, frame |-> [f EXCEPT !.pc = "done", !.kind = "raised"]]

\* an exception raised in the handler: the outermost except clause returns
\* the generic outcome
Raise(st, f) == Return(st, f, "error")

\* a slot loop that keeps going after a match: the last matching slot
MatchingSlot_last(session, guess) ==
    LET hits == {i \in 1..Len(session.synonyms) :
                    /\ session.synonyms[i].word = NoWord
                    /\ i <= Len(session.actual_synonyms)
                    /\ \/ Lower(guess) = Lower(session.actual_synonyms[i])
                       \/ _is_close_match(Lower(guess), Lower(session.actual_synonyms[i]))}
    IN  IF hits = {} THEN 0 ELSE CHOOSE i \in hits : \A j \in hits : i >= j

\* the slot loop of submit_guess: the first slot whose word is None and whose
\* hidden synonym the guess matches exactly or closely; 0 when there is none
MatchingSlot(session, guess) ==
    LET hits == {i \in 1..Len(session.synonyms) :
                    /\ session.synonyms[i].word = NoWord
                    /\ i <= Len(session.actual_synonyms)
                    /\ \/ Lower(guess) = Lower(session.actual_synonyms[i])
                       \/ _is_close_match(Lower(guess), Lower(session.actual_synonyms[i]))}
    IN  IF hits = {} THEN 0 ELSE CHOOSE i \in hits : \A j \in hits : i <= j

\* an increment by two
WriteCount_twice(session, tmp) == [session EXCEPT !.guess_count = tmp + 2]

\* an increment that is lost
WriteCount_lost(session, tmp) == session

\* session.guess_count += 1, second half: store the value read plus one
WriteCount(session, tmp) == [session EXCEPT !.guess_count = tmp + 1]

\* GameSession.add_guess, first half: record the guess unless it is recorded
AppendIfNew(session, guess) ==
    IF InList(guess, session.guessed_words) THEN session
    ELSE [session EXCEPT !.guessed_words = Append(@, guess)]

\* a status test that lets a given-up game through
IsActive_or_given_up(session) == session.status \in {ACTIVE, GIVEN_UP}

\* session.status != GameStatus.ACTIVE, negated
IsActive(session) == session.status = ACTIVE

\* sanitized_guess.lower() == session.target_word.lower()
IsTargetWord(session, guess) == Lower(guess) = Lower(session.target_word)

\* a target-word branch that records nothing
RecordTarget_skipped(session, guess) == session

\* session.guessed_words.append(sanitized_guess) of the target-word branch
RecordTarget(session, guess) == [session EXCEPT !.guessed_words = Append(@, guess)]

\* slot.word = sanitized_guess
SetSlotWord(session, i, guess) == [session EXCEPT !.synonyms[i].word = guess]

\* slot.found = True
SetSlotFound(session, i) == [session EXCEPT !.synonyms[i].found = TRUE]

\* session.status = GameStatus.COMPLETED
MarkCompleted(session) == [session EXCEPT !.status = COMPLETED]

\* a loop body that reveals all slots but the last
\* a reveal that does not look at the found flag
RevealSlot_all(session, i) ==
    IF i <= Len(session.actual_synonyms)
    THEN [session EXCEPT !.synonyms[i].word = session.actual_synonyms[i],
                         !.synonyms[i].found = TRUE]
    ELSE session

RevealSlot_but_last(session, i) ==
    IF ~session.synonyms[i].found /\ i < Len(session.actual_synonyms)
    THEN [session EXCEPT !.synonyms[i].word = session.actual_synonyms[i],
                         !.synonyms[i].found = TRUE]
    ELSE session

\* the body of give_up's loop for slot i
RevealSlot(session, i) ==
    IF ~session.synonyms[i].found /\ i <= Len(session.actual_synonyms)
    THEN [session EXCEPT !.synonyms[i].word = session.actual_synonyms[i],
                         !.synonyms[i].found = TRUE]
    ELSE session

\* a give-up that is counted as a guess
MarkGivenUp_counted(session) ==
    [session EXCEPT !.status = GIVEN_UP, !.guess_count = @ + 1]

\* session.status = GameStatus.GIVEN_UP
MarkGivenUp(session) == [session EXCEPT !.status = GIVEN_UP]

\* a duplicate test that never fires
IsDuplicate_never(session, guess) == FALSE

\* the duplicate test of submit_guess
IsDuplicate(session, guess) ==
    InList(Lower(guess), [i \in 1..Len(session.guessed_words) |->
                             Lower(session.guessed_words[i])])

\* The return statement is evaluated: the not-found and the generic outcome
\* carry game_state={}, the others the snapshot of the session; the snapshot
\* of a session with a None slot raises.
Respond(f, session) ==
    IF f.kind \in {"not_found", "error"} THEN [f EXCEPT !.game_state = EmptyState]
    ELSE IF HasNullSlot(session) THEN [f EXCEPT !.kind = "error", !.game_state = EmptyState]
    ELSE [f EXCEPT !.game_state = _get_game_state_dict(session)]

\* One step of GameBuilderAgent.submit_guess at clock t.
submit_guess(st, f, t) ==
    LET session == st.sessions[f.sid]
    IN
    CASE f.pc = "fetch" ->
            LET got == _get_session_with_recovery(st, f.sid, t)
            IN  IF got.found THEN Goto(got.store, f, "check_status")
                ELSE Return(got.store, f, "not_found")
      [] f.pc = "check_status" ->
            IF ~IsActive(session) THEN Return(st, f, "not_active")
            ELSE Goto(st, f, "sanitize")
      [] f.pc = "sanitize" ->
            LET checked == _sanitize_and_validate_guess(f.guess)
            IN  IF checked.error # "ok" THEN Goto(st, f, "invalid_read")
                ELSE IF IsTargetWord(session, checked.guess)
                     THEN Goto(st, [f EXCEPT !.guess = checked.guess], "target_read")
                     ELSE Goto(st, [f EXCEPT !.guess = checked.guess], "dup_check")
      \* except ValueError: session.guess_count += 1
      [] f.pc = "invalid_read" ->
            IF session.guess_count = NullCount THEN Raise(st, f)
            ELSE Goto(st, [f EXCEPT !.tmp = session.guess_count], "invalid_write")
      [] f.pc = "invalid_write" ->
            Return(Put(st, f.sid, WriteCount(session, f.tmp)), f, "invalid")
      \* the guess is the target word
      [] f.pc = "target_read" ->
            IF session.guess_count = NullCount THEN Raise(st, f)
            ELSE Goto(st, [f EXCEPT !.tmp = session.guess_count], "target_write")
      [] f.pc = "target_write" ->
            Goto(Put(st, f.sid, WriteCount(session, f.tmp)), f, "target_append")
      [] f.pc = "target_append" ->
            IF session.guessed_words = NullList THEN Raise(st, f)
            ELSE Return(Put(st, f.sid, RecordTarget(session, f.guess)), f, "target")
      \* the guess was made before
      [] f.pc = "dup_check" ->
            IF session.guessed_words = NullList THEN Raise(st, f)
            ELSE IF IsDuplicate(session, f.guess) THEN Goto(st, f, "dup_read")
            ELSE Goto(st, f, "add_guess")
      [] f.pc = "dup_read" ->
            IF session.guess_count = NullCount THEN Raise(st, f)
            ELSE Goto(st, [f EXCEPT !.tmp = session.guess_count], "dup_write")
      [] f.pc = "dup_write" ->
            Return(Put(st, f.sid, WriteCount(session, f.tmp)), f, "duplicate")
      \* session.add_guess(sanitized_guess)
      [] f.pc = "add_guess" ->
            IF session.guessed_words = NullList THEN Raise(st, f)
            ELSE Goto(Put(st, f.sid, AppendIfNew(session, f.guess)), f, "add_read")
      [] f.pc = "add_read" ->
            IF session.guess_count = NullCount THEN Raise(st, f)
            ELSE Goto(st, [f EXCEPT !.tmp = session.guess_count], "add_write")
      [] f.pc = "add_write" ->
            Goto(Put(st, f.sid, WriteCount(session, f.tmp)), f, "validate")
      [] f.pc = "validate" ->
            LET actual == IF session.actual_synonyms = <<>>
                          THEN _recover_session_synonyms(session)
                          ELSE session.actual_synonyms
            IN  IF validate_guess(f.guess, session.target_word, actual)
                THEN Goto(st, [f EXCEPT !.validated = TRUE], "find_slot")
                ELSE Goto(st, [f EXCEPT !.validated = TRUE], "hint")
      \* is_valid: mark the matching slot
      \* slot.word of a None slot raises; the clause that catches it answers
      \* with a snapshot, which raises again
      [] f.pc = "find_slot" ->
            IF /\ FirstNull(session) # 0
               /\ MatchingSlot(session, f.guess) \notin 1..(FirstNull(session) - 1)
            THEN Raise(st, f)
            ELSE IF MatchingSlot(session, f.guess) = 0 THEN Goto(st, f, "check_complete")
            ELSE Goto(st, [f EXCEPT !.slot = MatchingSlot(session, f.guess)], "set_word")
      [] f.pc = "set_word" ->
            Goto(Put(st, f.sid, SetSlotWord(session, f.slot, f.guess)), f, "set_found")
      [] f.pc = "set_found" ->
            Goto(Put(st, f.sid, SetSlotFound(session, f.slot)), f, "check_complete")
      [] f.pc = "check_complete" ->
            IF /\ FirstNull(session) # 0
               /\ \A i \in 1..(FirstNull(session) - 1) : session.synonyms[i].found
            THEN Raise(st, f)
            ELSE IF is_complete(session) THEN Goto(st, f, "set_completed")
            ELSE Return(st, f, "correct")
      [] f.pc = "set_completed" ->
            Return(Put(st, f.sid, MarkCompleted(session)), f, "completed")
      \* not is_valid: ask the hint chain
      [] f.pc = "hint" ->
            Return(st, [f EXCEPT !.hinted = TRUE,
                                 !.hint = request_hint_analysis(f.guess, session.target_word,
                                                                f.env).hint],
                   "incorrect")
      [] f.pc = "respond" -> Goto(st, Respond(f, session), "done")

\* One step of GameBuilderAgent.give_up at clock t.
give_up(st, f, t) ==
    LET session == st.sessions[f.sid]
    IN
    CASE f.pc = "fetch" ->
            LET got == _get_session_with_recovery(st, f.sid, t)
            IN  IF got.found THEN Goto(got.store, [f EXCEPT !.slot = 1], "reveal")
                ELSE Return(got.store, f, "not_found")
      \* for i, slot in enumerate(session.synonyms): one slot per step
      [] f.pc = "reveal" ->
            IF f.slot > Len(session.synonyms) THEN Goto(st, f, "set_given_up")
            \* slot.found of a None slot raises: the except clause goes on
            ELSE IF session.synonyms[f.slot] = NullSlot THEN Goto(st, f, "set_given_up")
            ELSE Goto(Put(st, f.sid, RevealSlot(session, f.slot)),
                      [f EXCEPT !.slot = @ + 1], "reveal")
      [] f.pc = "set_given_up" ->
            Return(Put(st, f.sid, MarkGivenUp(session)), f, "given_up")
      [] f.pc = "respond" -> Goto(st, Respond(f, session), "done")

\* One step of the call a frame is in.
Step(st, f, t) ==
    IF f.op = "submit_guess" THEN submit_guess(st, f, t) ELSE give_up(st, f, t)

\* A call run from its frame to its return without another thread in between.
RECURSIVE Run(_, _, _)
Run(st, f, t) ==
    IF f.pc = "done" THEN [store |-> st, frame |-> f]
    ELSE LET r == Step(st, f, t) IN Run(r.store, r.frame, t)

\* The response a finished frame returns to its caller.
ResponseOf(f) ==
    [ op         |-> f.op,
      kind       |-> f.kind,
      success    |-> f.kind \in {"correct", "completed"},
      hint       |-> f.hint,
      game_state |-> f.game_state,
      error      |-> "",
      validated  |-> f.validated,
      hinted     |-> f.hinted ]

\* The message= argument of the GuessResponse or GiveUpResponse a finished
\* frame returns; {..} stands for the interpolated word.  A frame left by an
\* exception returns no outcome and has no message.
message(f) ==
    CASE f.kind = "not_found"  -> "Session not found. Please start a new game."
      [] f.kind = "not_active" -> "Game is not active. Please start a new game."
      [] f.kind = "invalid"    -> _sanitize_and_validate_guess(f.guess).error
      [] f.kind = "target"     -> "You can't use the target word '{session.target_word}' as a guess! Try finding words that mean the same thing."
      [] f.kind = "duplicate"  -> "You already guessed '{sanitized_guess}'. Try a different word."
      [] f.kind = "completed"  -> "Correct! '{sanitized_guess}' is a synonym. Congratulations! You found all synonyms!"
      [] f.kind = "correct"    -> "Correct! '{sanitized_guess}' is a synonym of '{session.target_word}'."
      [] f.kind = "incorrect"  -> "'{sanitized_guess}' is not a synonym of '{session.target_word}'."
      [] f.kind = "given_up"   -> "Game ended. Here are all the synonyms:"
      [] f.kind = "error"      ->
            IF f.op = "submit_guess"
            THEN "An error occurred processing your guess. Please try again."
            ELSE "An error occurred ending the game. Please start a new game."
      [] OTHER -> ""

\* A ValueError raised by GuessRequest before submit_guess is entered.
RaisedValueError(error) ==
    [ op |-> "submit_guess", kind |-> "value_error",
      success |-> FALSE, hint |-> NoHint, game_state |-> EmptyState,
      error |-> error, validated |-> FALSE, hinted |-> FALSE ]

-----------------------------------------------------------------------------
(* game_builder_agent.py: start_new_game *)

\* what generate_word_puzzle hands to one attempt of start_new_game
HappyPuzzle ==
    [ target_word |-> happy,
      synonyms    |-> [i \in 1..4 |-> [word |-> CuratedHappy[i],
                                       letter_count |-> Len(CuratedHappy[i])]] ]
\* a puzzle with three synonyms only
ShortPuzzle == [HappyPuzzle EXCEPT !.synonyms = SubSeq(@, 1, 3)]
\* generate_word_puzzle raised
SourceRaises == [target_word |-> <<>>, synonyms |-> <<>>]

\* the dictionary source over the three attempts of one start_new_game call
SourceRuns ==
    { << HappyPuzzle, HappyPuzzle, HappyPuzzle >>,
      << ShortPuzzle, HappyPuzzle, HappyPuzzle >>,
      << SourceRaises, ShortPuzzle, HappyPuzzle >>,
      << ShortPuzzle, ShortPuzzle, ShortPuzzle >>,
      << SourceRaises, SourceRaises, SourceRaises >> }

\* the identifiers uuid4 can produce, and the one of the emergency game
SessionIds == {"s1", "s2"}
EmergencyId == "e1"
AllIds == SessionIds \cup {EmergencyId}

\* the uuid4 draws of one attempt: the first identifier and its regenerations
DrawSeqs ==
    { [k \in 1..11 |-> "s1"],
      [k \in 1..11 |-> IF k = 11 THEN "s2" ELSE "s1"] }

\* GameBuilderAgent._validate_puzzle_data
_validate_puzzle_data(puzzle_data) ==
    /\ puzzle_data.target_word # <<>>
    /\ Len(puzzle_data.synonyms) = 4
    /\ \A i \in 1..Len(puzzle_data.synonyms) :
          /\ Len(puzzle_data.synonyms[i].word) = puzzle_data.synonyms[i].letter_count
          /\ puzzle_data.synonyms[i].letter_count >= 2
          /\ puzzle_data.synonyms[i].letter_count <= 20

\* the collision loop of start_new_game: the count of regenerations it ends with
RECURSIVE collision_count(_, _, _)
collision_count(ss, draws, c) ==
    IF draws[c + 1] \in DOMAIN ss /\ c < 10 THEN collision_count(ss, draws, c + 1)
    ELSE c

\* one attempt of start_new_game: the identifier it stores the session under,
\* or "" when the attempt raises
attempt_id(ss, puzzle_data, draws) ==
    IF puzzle_data = SourceRaises \/ ~_validate_puzzle_data(puzzle_data) THEN ""
    ELSE IF collision_count(ss, draws, 0) >= 10 THEN ""
    ELSE IF ~IsAlpha(puzzle_data.target_word) THEN ""
    ELSE draws[collision_count(ss, draws, 0) + 1]

\* max_retries of start_new_game
max_retries == 3

\* the attempts of start_new_game from the k-th on: the first that succeeds,
\* 0 when none does; attempt k gets source_run[k] from the dictionary source
\* and draw_run[k] from uuid4
RECURSIVE first_success(_, _, _, _)
first_success(ss, source_run, draw_run, k) ==
    IF k > max_retries THEN 0
    ELSE IF attempt_id(ss, source_run[k], draw_run[k]) # "" THEN k
    ELSE first_success(ss, source_run, draw_run, k + 1)

\* the StartGameResponse for a stored session
StartGameResponse(session_id, session) ==
    [ op |-> "start_new_game", kind |-> "started",
      success |-> TRUE, hint |-> NoHint,
      game_state |-> [session_id    |-> session_id,
                      target_word   |-> session.target_word,
                      synonym_slots |-> [i \in 1..Len(session.synonyms) |->
                                            [letterCount |-> session.synonyms[i].letter_count]],
                      status        |-> ACTIVE],
      error |-> "", validated |-> FALSE, hinted |-> FALSE ]

\* a fallback that answers without storing its session
_create_emergency_game_unstored(st, session_id) ==
    [ store    |-> st,
      response |-> StartGameResponse(session_id,
                                     NewSession(happy, EmergencySynonyms, NoActivity)) ]

\* GameBuilderAgent._create_emergency_game, uuid4 giving session_id
_create_emergency_game(st, session_id) ==
    LET session == NewSession(happy, EmergencySynonyms, NoActivity)
    IN  [ store    |-> Store([id \in DOMAIN st.sessions \cup {session_id} |->
                                 IF id = session_id THEN session ELSE st.sessions[id]],
                             st.last_cleanup),
          response |-> StartGameResponse(session_id, session) ]

\* GameBuilderAgent.start_new_game at clock t
start_new_game(st, source_run, draw_run, emergency_id, t) ==
    LET k == first_success(st.sessions, source_run, draw_run, 1)
    IN  IF k = 0 THEN _create_emergency_game(st, emergency_id)
        ELSE LET id      == attempt_id(st.sessions, source_run[k], draw_run[k])
                 words   == [i \in 1..4 |-> source_run[k].synonyms[i].word]
                 session == NewSession(source_run[k].target_word, words, t)
             IN  [ store    |-> Store([j \in DOMAIN st.sessions \cup {id} |->
                                          IF j = id THEN session ELSE st.sessions[j]],
                                      st.last_cleanup),
                   response |-> StartGameResponse(id, session) ]

-----------------------------------------------------------------------------
(* The calls the callers make *)

\* the texts callers put into GuessRequest(session_id, guess)
RawGuesses ==
    { joyful, pleased, joyfull, wrong, Happy, glad1, blank, tagged }

TheStore == Store(sessions, last_cleanup)

\* guesses counted over the stored sessions
RECURSIVE SumCounts(_, _)
SumCounts(ss, ids) ==
    IF ids = {} THEN 0
    ELSE LET id == CHOOSE x \in ids : TRUE
         IN  ss[id].guess_count + SumCounts(ss, ids \ {id})
TotalGuesses == SumCounts(sessions, DOMAIN sessions)

NoResponse ==
    [ op |-> "none", kind |-> "", success |-> FALSE, hint |-> NoHint,
      game_state |-> EmptyState, error |-> "", validated |-> FALSE, hinted |-> FALSE ]

NoHintService == [a2a |-> "raise", http |-> "raise"]

\* submit_guess(GuessRequest(session_id, guess)) run to its return on store st
SubmitCall(st, session_id, guess, env, t) ==
    LET request == GuessRequest(session_id, guess)
    IN  IF request.error # "ok"
        THEN [store |-> st, response |-> RaisedValueError(request.error)]
        ELSE LET r == Run(st, SubmitFrame(session_id, request.guess, env), t)
             IN  [store |-> r.store, response |-> ResponseOf(r.frame)]

\* give_up(session_id) run to its return on store st
GiveUpCall(st, session_id, t) ==
    LET r == Run(st, GiveUpFrame(session_id), t)
    IN  [store |-> r.store, response |-> ResponseOf(r.frame)]

\* a game in progress: start_new_game() on a new agent, then the submissions
\* of script in order, all at clock 0
RECURSIVE Replay(_, _)
Replay(st, script) ==
    IF script = <<>> THEN st
    ELSE Replay(SubmitCall(st, "s1", Head(script), NoHintService, 0).store, Tail(script))

Started ==
    start_new_game(Store(<< >>, 0), <<HappyPuzzle, HappyPuzzle, HappyPuzzle>>,
                   [a \in 1..3 |-> [k \in 1..11 |-> "s1"]], EmergencyId, 0).store

\* the first three submissions of the games the model starts from
InitScripts ==
    { << joyful, cheerful, glad >>,
      << joyfull, cheerful, glad >>,
      << cheerful, glad, pleased >>,
      << glad, wrong, pleased >>,
      << wrong, Happy, wrong >> }

Init ==
    /\ \E script \in InitScripts : sessions = Replay(Started, script).sessions
    /\ last_cleanup = 0
    /\ now = 0
    /\ response = NoResponse
    /\ frames = << >>

\* the same draws of uuid4 in each attempt of a call
SameDraws(seqs) == { [a \in 1..3 |-> draws] : draws \in seqs }

\* start_new_game(), with the dictionary source behaving as one of runs and
\* uuid4 as one of draw_runs and, for the emergency game, one of emergency_ids
StartWith(runs, draw_runs, emergency_ids) ==
    \E source_run \in runs, draw_run \in draw_runs, emergency_id \in emergency_ids :
        LET r == start_new_game(TheStore, source_run, draw_run, emergency_id, now)
        IN  /\ sessions' = r.store.sessions
            /\ last_cleanup' = r.store.last_cleanup
            /\ response' = r.response
            /\ UNCHANGED <<now, frames>>

\* submit_guess(GuessRequest(session_id, guess)), as the handler and the tests
\* call it: a ValueError of GuessRequest reaches the caller before submit_guess
SubmitGuess(session_id, guess, env) ==
    LET r == SubmitCall(TheStore, session_id, guess, env, now)
    IN  /\ sessions' = r.store.sessions
        /\ last_cleanup' = r.store.last_cleanup
        /\ response' = r.response
        /\ UNCHANGED <<now, frames>>

\* give_up(session_id)
GiveUp(session_id) ==
    LET r == GiveUpCall(TheStore, session_id, now)
    IN  /\ sessions' = r.store.sessions
        /\ last_cleanup' = r.store.last_cleanup
        /\ response' = r.response
        /\ UNCHANGED <<now, frames>>

\* the hint service matters to a submission only when the guess is rejected by
\* validation; the other submissions are enumerated with it out of service
EnvsFor(session_id, guess) ==
    IF SubmitCall(TheStore, session_id, guess, NoHintService, now).response.hinted
    THEN HintEnvs ELSE {NoHintService}

StartNewGame == StartWith(SourceRuns, SameDraws(DrawSeqs), {EmergencyId})
Submit == \E session_id \in AllIds, guess \in RawGuesses :
              /\ (session_id \in DOMAIN sessions /\ sessions[session_id].status = ACTIVE)
                    => TotalGuesses < MaxGuesses
              /\ \E env \in EnvsFor(session_id, guess) :
                    SubmitGuess(session_id, guess, env)
Abandon == \E session_id \in AllIds : GiveUp(session_id)

Next == StartNewGame \/ Submit \/ Abandon

Spec == Init /\ [][Next]_vars

-----------------------------------------------------------------------------
(* The store over time: several sessions are started, played a little and   *)
(* abandoned while the clock runs, so that the expiry sweep of              *)
(* _get_session_with_recovery takes part in the calls.                      *)

StoreRuns == { << HappyPuzzle, HappyPuzzle, HappyPuzzle >>,
               << SourceRaises, SourceRaises, SourceRaises >> }
StoreDraws == { [k \in 1..11 |-> "s1"] }
StoreGuesses == { glad, wrong }

StoreInit ==
    /\ sessions = << >>
    /\ last_cleanup = 0
    /\ now = 0
    /\ response = NoResponse
    /\ frames = << >>

StoreStart == StartWith(StoreRuns, SameDraws(StoreDraws), {EmergencyId})
StoreSubmit ==
    \E session_id \in AllIds, guess \in StoreGuesses :
        /\ (session_id \in DOMAIN sessions /\ sessions[session_id].status = ACTIVE)
              => TotalGuesses < MaxStoreGuesses
        /\ SubmitGuess(session_id, guess, NoHintService)

\* time passes: exactly the cleanup interval, or one second more
Tick ==
    \E d \in {session_cleanup_interval, session_cleanup_interval + 1} :
        /\ now + d <= MaxTicks * (session_cleanup_interval + 1)
        /\ now' = now + d
        /\ UNCHANGED <<sessions, last_cleanup, response, frames>>

StoreNext == StoreStart \/ StoreSubmit \/ Abandon \/ Tick

StoreSpec == StoreInit /\ [][StoreNext]_vars

-----------------------------------------------------------------------------
(* Concurrent callers: two threads of one process call submit_guess and     *)
(* give_up on the same session, as the ThreadPoolExecutor tests do.  Each   *)
(* thread makes one call and takes the steps of its handler one at a time;  *)
(* the agent holds no lock.                                                 *)

Threads == {1, 2}

\* the games the threads meet: a new one, and one with a single slot left
ConcScripts == { << >>, << cheerful, glad, pleased >> }

\* the guesses the threads submit; all pass GuessRequest unchanged
ConcGuesses == { joyful, joyfull, wrong, bad }

ConcInit ==
    /\ \E script \in ConcScripts : sessions = Replay(Started, script).sessions
    /\ last_cleanup = 0
    /\ now = 0
    /\ response = NoResponse
    /\ frames = [t \in Threads |-> IdleFrame]

\* thread t enters submit_guess(GuessRequest("s1", guess))
CallSubmit(t) ==
    \E guess \in ConcGuesses :
        /\ frames[t].pc = "idle"
        /\ GuessRequest("s1", guess).error = "ok"
        /\ frames' = [frames EXCEPT
                         ![t] = SubmitFrame("s1", GuessRequest("s1", guess).guess,
                                            NoHintService)]
        /\ UNCHANGED <<sessions, last_cleanup, now, response>>

\* thread t enters give_up("s1")
CallGiveUp(t) ==
    /\ frames[t].pc = "idle"
    /\ frames' = [frames EXCEPT ![t] = GiveUpFrame("s1")]
    /\ UNCHANGED <<sessions, last_cleanup, now, response>>

\* thread t runs the next piece of its handler
ThreadStep(t) ==
    /\ frames[t].pc \notin {"idle", "done"}
    /\ LET r == Step(TheStore, frames[t], now)
       IN  /\ sessions' = r.store.sessions
           /\ last_cleanup' = r.store.last_cleanup
           /\ frames' = [frames EXCEPT ![t] = r.frame]
    /\ UNCHANGED <<now, response>>

ConcNext == \E t \in Threads : CallSubmit(t) \/ CallGiveUp(t) \/ ThreadStep(t)

ConcSpec == ConcInit /\ [][ConcNext]_vars

-----------------------------------------------------------------------------
(* Properties of concurrent calls on one session (ConcSpec) *)

\* thread t has returned from a submit_guess of the given outcome
Returned(t, kind) ==
    /\ frames[t].op = "submit_guess"
    /\ frames[t].pc = "done"
    /\ frames[t].kind = kind

\* the session the threads share
Shared == sessions["s1"]

\* C1: when two submit_guess calls with distinct well-formed guesses that
\* match no synonym run concurrently on the same Active session, then after
\* both have returned guess_count has grown by exactly two.  The case taken is
\* the new game, whose guess_count starts at 0 and whose guessed_words then
\* holds exactly the two guesses.
C1_NoLostIncrement ==
    ( /\ Returned(1, "incorrect")
      /\ Returned(2, "incorrect")
      /\ frames[1].guess # frames[2].guess
      /\ Len(Shared.guessed_words) = 2 )
    => Shared.guess_count = 2

\* C2: when two submit_guess calls with different guesses that both match the
\* synonym of the only unfound slot run concurrently, at most one of them
\* assigns the slot and at most one returns the outcome that announces the
\* completed game.  The case taken is the game in which cheerful, glad and
\* pleased are found and joyful is left.
C2_AtMostOneCompletes ==
    ( /\ \A t \in Threads : frames[t].op = "submit_guess" /\ frames[t].pc = "done"
      /\ frames[1].guess # frames[2].guess
      /\ {frames[1].guess, frames[2].guess} = {joyful, joyfull}
      /\ InList(cheerful, Shared.guessed_words) )
    => /\ ~(frames[1].slot # 0 /\ frames[2].slot # 0)
       /\ ~(frames[1].kind = "completed" /\ frames[2].kind = "completed")

\* C3: once give_up has returned with status GivenUp, the status of the
\* session stays GivenUp, whatever a concurrent submit_guess that passed its
\* Active check earlier still does.
C3_GivenUpStays ==
    \A t \in Threads :
        ( /\ frames[t].op = "give_up"
          /\ frames[t].pc = "done"
          /\ frames[t].kind = "given_up" )
        => Shared.status = GIVEN_UP

-----------------------------------------------------------------------------
(* Properties of calls that run one after the other (Spec, StoreSpec).  A   *)
(* property of a handler is stated over every call that can be made in the  *)
(* state: the store the call leaves and the response it returns.            *)

\* every slot of the session is found
AllSlotsFound(session) ==
    /\ Len(session.synonyms) = 4
    /\ \A i \in 1..4 : session.synonyms[i].found = TRUE

\* how often x occurs in list
Occurrences(x, list) == Cardinality({i \in 1..Len(list) : list[i] = x})

\* the hint service down, and the hint service answering
TwoEnvs == { NoHintService, [a2a |-> "a2a hint", http |-> "raise"] }

\* the stored sessions whose status is Active
ActiveIds == {id \in DOMAIN sessions : sessions[id].status = ACTIVE}

\* C4: after any submit_guess on an Active session the status is Completed if
\* and only if all 4 slots are found at the end of the call, and otherwise it
\* is still Active.
C4_CompletedIffAllFound ==
    \A session_id \in ActiveIds, guess \in RawGuesses :
        \A env \in EnvsFor(session_id, guess) :
            LET after == SubmitCall(TheStore, session_id, guess, env, now)
                             .store.sessions[session_id]
            IN  /\ after.status = COMPLETED <=> AllSlotsFound(after)
                /\ after.status # COMPLETED => after.status = ACTIVE

\* a submit_guess has just filled the last slot of a session
C4_Witness ==
    /\ response.op = "submit_guess"
    /\ response.kind = "completed"
    /\ \E id \in DOMAIN sessions :
          /\ sessions[id].status = COMPLETED
          /\ AllSlotsFound(sessions[id])
          /\ response.game_state = _get_game_state_dict(sessions[id])

\* C5: Completed and GivenUp are terminal: no submit_guess and no give_up
\* changes the status of a session that is Completed or GivenUp.
C5_TerminalStatus ==
    [][ \A id \in DOMAIN sessions :
          ( /\ sessions[id].status \in {COMPLETED, GIVEN_UP}
            /\ response'.op \in {"submit_guess", "give_up"}
            /\ id \in DOMAIN sessions' )
          => sessions'[id].status = sessions[id].status ]_vars

C7_DuplicateHandling ==
    \A session_id \in ActiveIds, guess \in RawGuesses :
        \A env \in TwoEnvs :
            LET request == GuessRequest(session_id, guess)
                before  == sessions[session_id]
                first   == SubmitCall(TheStore, session_id, guess, env, now)
                between == first.store.sessions[session_id]
                second  == SubmitCall(first.store, session_id, guess, env, now)
                after   == second.store.sessions[session_id]
            IN  ( /\ request.error = "ok"
                  /\ Lower(request.guess) # Lower(before.target_word)
                  /\ between.status = ACTIVE )
                => /\ between.guess_count = before.guess_count + 1
                   /\ after.guess_count = before.guess_count + 2
                   /\ Occurrences(request.guess, after.guessed_words) = 1
                   /\ second.response.kind = "duplicate"
                   /\ second.response.success = FALSE
                   /\ second.response.hint = NoHint
                   /\ second.response.validated = FALSE
                   /\ second.response.hinted = FALSE

\* a guess has just been rejected as a duplicate and counted
C7_Witness ==
    /\ response.op = "submit_guess"
    /\ response.kind = "duplicate"
    /\ \E id \in ActiveIds :
          /\ response.game_state = _get_game_state_dict(sessions[id])
          /\ sessions[id].guess_count > Len(sessions[id].guessed_words)

\* the target word as callers may type it
TargetCasings ==
    { happy, Happy, << "H", "A", "P", "P", "Y" >>, << "h", "a", "P", "p", "y" >> }

\* C8: submitting the target word in any casing to an Active session is
\* rejected: guess_count grows by 1, the guess is recorded in guessed_words,
\* no slot and no status changes, and the outcome carries no hint.
C8_TargetWordRejected ==
    \A session_id \in ActiveIds, guess \in TargetCasings :
        \A env \in TwoEnvs :
            LET before == sessions[session_id]
                call   == SubmitCall(TheStore, session_id, guess, env, now)
                after  == call.store.sessions[session_id]
            IN  Lower(guess) = Lower(before.target_word)
                => /\ call.response.success = FALSE
                   /\ call.response.kind = "target"
                   /\ call.response.hint = NoHint
                   /\ after.guess_count = before.guess_count + 1
                   /\ InList(Lower(guess), after.guessed_words)
                   /\ after.synonyms = before.synonyms
                   /\ after.status = before.status

\* the target word, typed with a capital, has just been rejected and recorded
C8_Witness ==
    /\ response.op = "submit_guess"
    /\ response.kind = "target"
    /\ response.hint = NoHint
    /\ \E id \in ActiveIds :
          /\ response.game_state = _get_game_state_dict(sessions[id])
          /\ InList(happy, sessions[id].guessed_words)

\* guesses that are empty, of several words, too long, not alphabetic or
\* that contain suspicious characters
MalformedGuesses == { << >>, blank, so_glad, too_long, digits, glad1, tagged }

\* C9: a malformed guess submitted against an existing Active session
\* increments the guess_count of the session by 1 and is rejected, with no
\* change of slots, status or guessed_words.
C9_MalformedCounts ==
    \A session_id \in ActiveIds, guess \in MalformedGuesses :
        LET before == sessions[session_id]
            call   == SubmitCall(TheStore, session_id, guess, NoHintService, now)
            after  == call.store.sessions[session_id]
        IN  /\ call.response.success = FALSE
            /\ after.guess_count = before.guess_count + 1
            /\ after.synonyms = before.synonyms
            /\ after.status = before.status
            /\ after.guessed_words = before.guessed_words

\* C10: submit_guess on an unknown session id, or on a session that is not
\* Active, is rejected and mutates nothing: no session is added, and
\* guess_count, guessed_words, slots and status of every session the store
\* holds afterwards are as before.
C10_RejectedNoMutation ==
    \A session_id \in AllIds \cup {"", "s9"}, guess \in RawGuesses :
        LET call == SubmitCall(TheStore, session_id, guess, NoHintService, now)
        IN  session_id \notin ActiveIds
            => /\ call.response.success = FALSE
               /\ call.response.kind \in {"not_found", "not_active", "value_error"}
               /\ DOMAIN call.store.sessions \subseteq DOMAIN sessions
               /\ \A id \in DOMAIN call.store.sessions :
                     /\ call.store.sessions[id].guess_count = sessions[id].guess_count
                     /\ call.store.sessions[id].guessed_words = sessions[id].guessed_words
                     /\ call.store.sessions[id].synonyms = sessions[id].synonyms
                     /\ call.store.sessions[id].status = sessions[id].status

\* a submit_guess has just been turned away from a game that was given up,
\* in a call that also ran the expiry sweep
C10_Witness ==
    /\ response.op = "submit_guess"
    /\ response.kind = "not_active"
    /\ now > 0
    /\ last_cleanup = now
    /\ \E id \in DOMAIN sessions :
          /\ sessions[id].status = GIVEN_UP
          /\ sessions[id].last_activity = now
          /\ response.game_state = _get_game_state_dict(sessions[id])

-----------------------------------------------------------------------------
(* validate_guess as a function of its arguments (MatchSpec): one call of   *)
(* the tool on a guess, a target word and a list of synonym words.          *)

\* generated words: every word of up to n letters over a and p
WordsUpTo(n) == UNION { [1..k -> {"a", "p"}] : k \in 1..n }

oyful == <<"o","y","f","u","l">>
HAPPY == <<"H","A","P","P","Y">>
ap    == <<"a","p">>
pap   == <<"p","a","p">>

\* the guesses handed to validate_guess
MatchGuesses ==
    WordsUpTo(MaxWordLen)
    \cup { <<"A","p">>, <<"a","P">>, <<"A","P">>, <<"P","a","p">>, <<"P","A","P">> }
    \cup { joyful, joyfull, oyful, wrong, happy, Happy, HAPPY }

\* the target words and synonym lists handed to validate_guess
MatchPuzzles ==
    { [target_word |-> happy, synonyms |-> CuratedHappy],
      [target_word |-> Happy, synonyms |-> CuratedHappy],
      [target_word |-> happy, synonyms |-> << joyful, happy, glad, pleased >>] }
    \cup { [target_word |-> t, synonyms |-> << w >>] :
              t \in {ap, pap, <<"P","a","p">>}, w \in WordsUpTo(MaxWordLen) }
    \cup { [target_word |-> t, synonyms |-> << w, t >>] :
              t \in {ap, pap}, w \in WordsUpTo(2) }

\* the frame of validate_guess(guess, target_word, synonyms)
ValidateFrame(guess, puzzle) ==
    [ op |-> "validate_guess", pc |-> "call", guess |-> guess,
      target_word |-> puzzle.target_word, synonyms |-> puzzle.synonyms,
      result |-> FALSE ]

MatchInit ==
    /\ sessions = << >>
    /\ last_cleanup = 0
    /\ now = 0
    /\ response = NoResponse
    /\ \E guess \in MatchGuesses, puzzle \in MatchPuzzles :
          frames = << ValidateFrame(guess, puzzle) >>

\* the call runs and returns
ValidateGuess ==
    /\ frames[1].pc = "call"
    /\ frames' = << [frames[1] EXCEPT
                       !.pc = "done",
                       !.result = validate_guess(frames[1].guess, frames[1].target_word,
                                                 frames[1].synonyms)] >>
    /\ UNCHANGED <<sessions, last_cleanup, now, response>>

MatchNext == ValidateGuess

MatchSpec == MatchInit /\ [][MatchNext]_vars

-----------------------------------------------------------------------------
(* Properties of validate_guess (MatchSpec) *)

\* the call of validate_guess has returned
Validated == frames[1].op = "validate_guess" /\ frames[1].pc = "done"

\* a letter and its capital
CasePairs == { <<"a", "A">>, <<"p", "P">>, <<"h", "H">>, <<"y", "Y">> }

\* x is a casing of word
IsCasingOf(x, word) ==
    /\ Len(x) = Len(word)
    /\ \A i \in 1..Len(x) :
          \/ x[i] = word[i]
          \/ <<x[i], word[i]>> \in CasePairs
          \/ <<word[i], x[i]>> \in CasePairs

\* word with its capitals replaced by their small letters
Uncapitalized(word) ==
    [i \in 1..Len(word) |->
        IF \E pair \in CasePairs : pair[2] = word[i]
        THEN (CHOOSE pair \in CasePairs : pair[2] = word[i])[1]
        ELSE word[i]]

Min3(a, b, c) == IF a <= b /\ a <= c THEN a ELSE IF b <= c THEN b ELSE c

\* one row of the edit-distance table, from the row above it
RECURSIVE LevRow(_, _, _, _)
LevRow(prev, c, b, cur) ==
    IF Len(cur) = Len(b) + 1 THEN cur
    ELSE LET j == Len(cur)
         IN  LevRow(prev, c, b,
                    Append(cur, Min3(prev[j + 1] + 1, cur[j] + 1,
                                     prev[j] + (IF b[j] = c THEN 0 ELSE 1))))

RECURSIVE LevFrom(_, _, _, _)
LevFrom(a, b, i, prev) ==
    IF i > Len(a) THEN prev[Len(b) + 1]
    ELSE LevFrom(a, b, i + 1, LevRow(prev, a[i], b, << i >>))

\* Levenshtein edit distance (insert, delete, substitute at unit cost)
Levenshtein(a, b) == LevFrom(a, b, 1, [j \in 1..(Len(b) + 1) |-> j - 1])

\* C11: for every target word, every casing of it used as the guess and every
\* synonym list, validate_guess is false, also when the target word is in the
\* list or is close to a synonym.
C11_TargetWordExcluded ==
    ( /\ Validated
      /\ IsCasingOf(frames[1].guess, frames[1].target_word) )
    => frames[1].result = FALSE

\* validate_guess has turned down the target word, typed in another casing,
\* although the list holds the target word itself
C11_Witness ==
    /\ Validated
    /\ IsCasingOf(frames[1].guess, frames[1].target_word)
    /\ frames[1].guess # frames[1].target_word
    /\ \E i \in 1..Len(frames[1].synonyms) :
          frames[1].synonyms[i] = Uncapitalized(frames[1].target_word)
    /\ frames[1].result = FALSE

\* C12: for every guess other than the target word and every synonym of the
\* list whose length differs from the guess's by at most 2 and whose
\* Levenshtein distance to the guess is at most 2, validate_guess is true.
\* Guess and synonym are compared in small letters.
C12_CloseGuessAccepted ==
    ( /\ Validated
      /\ ~IsCasingOf(frames[1].guess, frames[1].target_word)
      /\ \E i \in 1..Len(frames[1].synonyms) :
            LET G == Uncapitalized(frames[1].guess)
                S == Uncapitalized(frames[1].synonyms[i])
            IN  /\ Len(G) - Len(S) \in -2..2
                /\ Levenshtein(G, S) <= 2 )
    => frames[1].result = TRUE

\* C13: for every guess whose Levenshtein distance to every synonym of the
\* list is greater than 2, validate_guess is false.  Guess and synonym are
\* compared in small letters.
C13_FarGuessRejected ==
    ( /\ Validated
      /\ \A i \in 1..Len(frames[1].synonyms) :
            Levenshtein(Uncapitalized(frames[1].guess),
                        Uncapitalized(frames[1].synonyms[i])) > 2 )
    => frames[1].result = FALSE

\* validate_guess has turned down a guess that is not the target word and is
\* as long as a synonym of the list, but more than 2 edits away from each
C13_Witness ==
    /\ Validated
    /\ ~IsCasingOf(frames[1].guess, frames[1].target_word)
    /\ \E i \in 1..Len(frames[1].synonyms) :
          Len(frames[1].synonyms[i]) = Len(frames[1].guess)
    /\ \A i \in 1..Len(frames[1].synonyms) :
          Levenshtein(Uncapitalized(frames[1].guess),
                      Uncapitalized(frames[1].synonyms[i])) > 2
    /\ frames[1].result = FALSE

-----------------------------------------------------------------------------
(* The hint chain step by step (HintSpec).  frames is the call stack of one *)
(* caller: a submit_guess frame, with the frame of request_hint_analysis on *)
(* top of it while the chain runs; or the frame of request_hint_analysis    *)
(* alone when the tool is called directly.                                  *)

\* __name__ of the strategies, in the order of hint_methods
method_names == << "a2a", "http", "local" >>

\* the frame of request_hint_analysis(guess, target_word)
HintFrame(guess, target_word, env) ==
    [ op |-> "request_hint_analysis", pc |-> "entry", guess |-> guess,
      target_word |-> target_word, env |-> env, k |-> 0,
      invoked |-> << >>, hint |-> NoHint ]

\* a loop that gives up at the first strategy that fails
on_failure_give_up(h) == [h EXCEPT !.pc = "done", !.hint = ""]

\* except Exception / result not usable: continue with the next strategy
on_failure(h) == [h EXCEPT !.pc = "try", !.k = @ + 1]

\* a strategy without a timeout: it goes on waiting
on_timeout_never(h) == h

\* the timeout of the httpx client expires: the strategy raises
on_timeout(h) == on_failure(h)

\* One step of request_hint_analysis on its frame h.
hint_step(h) ==
    CASE h.pc = "entry" ->
            IF \/ h.guess = <<>> \/ h.target_word = <<>>
               \/ Strip(h.guess) = <<>> \/ Strip(h.target_word) = <<>>
            THEN [h EXCEPT !.pc = "done",
                           !.hint = "Please enter a valid word to get a hint."]
            ELSE [h EXCEPT !.pc = "try", !.k = 1,
                           !.guess = Strip(h.guess),
                           !.target_word = Strip(h.target_word)]
      [] h.pc = "try" ->
            IF h.k > Len(method_names)
            THEN [h EXCEPT !.pc = "done",
                           !.invoked = Append(@, "emergency"),
                           !.hint = _generate_emergency_fallback_hint(h.guess,
                                                                      h.target_word)]
            ELSE LET result  == hint_methods(h.guess, h.target_word, h.env)[h.k]
                     entered == [h EXCEPT !.invoked = Append(@, method_names[h.k])]
                 IN  IF result = "hang" THEN [entered EXCEPT !.pc = "waiting"]
                     ELSE IF Failed(result) THEN on_failure(entered)
                     ELSE [entered EXCEPT !.pc = "done", !.hint = result]
      [] h.pc = "waiting" -> on_timeout(h)

\* what a network-backed strategy can do
A2aResults  == { "raise", "hang", "", " ", "a2a hint" }
HttpResults == { "raise", "hang", "", " ", "http hint" }
ChainEnvs == { [a2a |-> x, http |-> y] : x \in A2aResults, y \in HttpResults }

no  == <<"n","o">>

\* guesses submitted while the hint service misbehaves
ChainGuesses == { wrong, no, joyful, Happy }
\* arguments of direct calls of the tool
ChainArgs ==
    { [guess |-> x, target_word |-> y] : x \in {wrong, no, happy}, y \in {happy, big} }

HintInit ==
    /\ sessions = Started.sessions
    /\ last_cleanup = 0
    /\ now = 0
    /\ response = NoResponse
    /\ \E env \in ChainEnvs :
          \/ \E guess \in ChainGuesses :
                frames = << SubmitFrame("s1", GuessRequest("s1", guess).guess, env) >>
          \/ \E args \in ChainArgs :
                frames = << HintFrame(args.guess, args.target_word, env) >>

\* the top of the stack
Top == frames[Len(frames)]

\* submit_guess runs a statement other than the call of the hint chain
SubmitStep ==
    /\ Len(frames) = 1
    /\ Top.op = "submit_guess"
    /\ Top.pc \notin {"hint", "done"}
    /\ LET r == Step(TheStore, Top, now)
       IN  /\ sessions' = r.store.sessions
           /\ last_cleanup' = r.store.last_cleanup
           /\ frames' = << r.frame >>
    /\ UNCHANGED <<now, response>>

\* submit_guess calls self.request_hint_analysis(sanitized_guess, target_word)
CallHint ==
    /\ Len(frames) = 1
    /\ Top.op = "submit_guess"
    /\ Top.pc = "hint"
    /\ frames' = Append(frames, HintFrame(Top.guess, sessions[Top.sid].target_word,
                                          Top.env))
    /\ UNCHANGED <<sessions, last_cleanup, now, response>>

\* request_hint_analysis checks its arguments or tries its next strategy
HintStep ==
    /\ Top.op = "request_hint_analysis"
    /\ Top.pc \in {"entry", "try"}
    /\ frames' = [frames EXCEPT ![Len(frames)] = hint_step(Top)]
    /\ UNCHANGED <<sessions, last_cleanup, now, response>>

\* the timeout of a strategy that waits for the hint service expires
Timeout ==
    /\ Top.op = "request_hint_analysis"
    /\ Top.pc = "waiting"
    /\ frames' = [frames EXCEPT ![Len(frames)] = hint_step(Top)]
    /\ UNCHANGED <<sessions, last_cleanup, now, response>>

\* request_hint_analysis returns its hint to submit_guess
ReturnHint ==
    /\ Len(frames) = 2
    /\ Top.pc = "done"
    /\ LET r == Step(TheStore, frames[1], now)
       IN  /\ sessions' = r.store.sessions
           /\ last_cleanup' = r.store.last_cleanup
           /\ frames' = << [r.frame EXCEPT !.hint = Top.hint] >>
    /\ UNCHANGED <<now, response>>

HintNext == SubmitStep \/ CallHint \/ HintStep \/ Timeout \/ ReturnHint

HintSpec == HintInit /\ [][HintNext]_vars

\* every step that can be taken is taken in the end: the caller's thread
\* runs, and the httpx timeouts (10 s and 30 s) do expire
HintLiveSpec == HintSpec /\ WF_vars(HintNext)

\* the chain run step by step returns what request_hint_analysis returns
ChainAgrees ==
    (Top.op = "request_hint_analysis" /\ Top.pc = "done")
    => Top.hint = request_hint_analysis(
                     IF Len(frames) = 2 THEN frames[1].guess ELSE Top.guess,
                     Top.target_word, Top.env).hint

-----------------------------------------------------------------------------
(* Properties of the hint chain (HintSpec, HintLiveSpec) *)

\* the order in which the chain is to try its strategies
StrategyOrder == << "a2a", "http", "local", "emergency" >>

\* a hint a player can read: a string with something other than whitespace
Readable(hint) == hint \notin {"", " ", "raise", "hang", NoHint}

\* the frame of request_hint_analysis is on the stack, called with a
\* non-empty alphabetic guess and target word
InChain ==
    /\ Top.op = "request_hint_analysis"
    /\ Top.guess # <<>> /\ Top.target_word # <<>>
    /\ \A i \in 1..Len(Top.guess) : Top.guess[i] \in LowerLetters \cup UpperLetters
    /\ \A i \in 1..Len(Top.target_word) :
          Top.target_word[i] \in LowerLetters \cup UpperLetters

ChainDone == InChain /\ Top.pc = "done"

\* what the strategy of the given name does in this call
Outcome(name) ==
    CASE name = "a2a"  -> Top.env.a2a
      [] name = "http" -> Top.env.http
      [] name = "local" -> _generate_fallback_hint(Top.guess, Top.target_word)
      [] OTHER -> _generate_emergency_fallback_hint(Top.guess, Top.target_word)

\* the position in StrategyOrder of the first strategy with a readable result
FirstReadable == CHOOSE n \in 1..4 :
                    /\ Readable(Outcome(StrategyOrder[n]))
                    /\ \A m \in 1..(n - 1) : ~Readable(Outcome(StrategyOrder[m]))

\* C14: for a non-empty alphabetic guess and target word,
\* request_hint_analysis returns a non-empty string whatever the network
\* strategies do (not configured, raise, time out, empty or blank result), and
\* a strategy that fails is always followed by the next one.
C14_HintChainTotal ==
    /\ ChainDone
       => /\ Readable(Top.hint)
          /\ \A n \in 1..3 :
                ( /\ InList(StrategyOrder[n], Top.invoked)
                  /\ ~Readable(Outcome(StrategyOrder[n])) )
                => InList(StrategyOrder[n + 1], Top.invoked)
    /\ ( /\ Len(frames) = 1
         /\ Top.op = "submit_guess"
         /\ Top.pc = "done"
         /\ Top.hinted )
       => Readable(Top.hint)

\* the chain has returned the local hint after the remote analysis timed out
\* and the direct call raised
C14_Witness ==
    /\ ChainDone
    /\ Top.env.a2a = "hang"
    /\ Top.env.http = "raise"
    /\ Top.invoked = << "a2a", "http", "local" >>
    /\ Top.hint = _generate_fallback_hint(Top.guess, Top.target_word)
    /\ Readable(Top.hint)

\* C15: the chain invokes its strategies strictly in the order remote
\* analysis, direct call, local heuristic, emergency hint; it returns the
\* result of the first that returns a string that is not empty or blank
\* without raising, and invokes none after it.
C15_FirstReadableWins ==
    /\ InChain => Top.invoked = SubSeq(StrategyOrder, 1, Len(Top.invoked))
    /\ ChainDone
       => /\ Top.invoked = SubSeq(StrategyOrder, 1, FirstReadable)
          /\ Top.hint = Outcome(StrategyOrder[FirstReadable])

\* the chain has returned the direct call's hint after a blank answer of the
\* remote analysis, and has not gone on to the local heuristic
C15_Witness ==
    /\ ChainDone
    /\ Top.env.a2a = " "
    /\ Top.env.http = "http hint"
    /\ Top.invoked = << "a2a", "http" >>
    /\ Top.hint = "http hint"

\* the call of the caller has returned
TopLevelReturned == Len(frames) = 1 /\ Top.pc = "done"

\* C16: every submit_guess call returns an outcome in the end, also when the
\* hint service never answers: a strategy that waits ends by its timeout and
\* only that strategy has failed; the outcome of a wrong guess is the
\* rejection with a readable hint.
C16_AlwaysReturns ==
    <>( /\ TopLevelReturned
        /\ Top.op = "submit_guess"
           => /\ Top.kind # ""
              /\ Top.hinted => (Top.kind = "incorrect" /\ Readable(Top.hint)) )

\* a wrong guess has been answered although the hint service answered
\* neither of the two network calls
C16_Witness ==
    /\ TopLevelReturned
    /\ Top.op = "submit_guess"
    /\ Top.env.a2a = "hang"
    /\ Top.env.http = "hang"
    /\ Top.kind = "incorrect"
    /\ Readable(Top.hint)

-----------------------------------------------------------------------------
(* Session creation (StartSpec): start_new_game against a dictionary source *)
(* that may raise or hand out any data, and a uuid4 that may repeat itself. *)

\* what the dictionary source may hand out besides HappyPuzzle and ShortPuzzle
PuzzleOf(words) ==
    [ target_word |-> happy,
      synonyms    |-> [i \in 1..Len(words) |->
                          [word |-> words[i], letter_count |-> Len(words[i])]] ]
\* the same synonym twice
DuplicatePuzzle == PuzzleOf(<< joyful, joyful, glad, pleased >>)
\* the target word among the synonyms
TargetPuzzle == PuzzleOf(<< happy, cheerful, glad, pleased >>)
\* a synonym of two letters
TinyPuzzle == PuzzleOf(<< no, cheerful, glad, pleased >>)
\* a letter count that is not the length of the word
MiscountPuzzle == [HappyPuzzle EXCEPT !.synonyms[1].letter_count = 5]

\* the dictionary source over the calls of generate_word_puzzle; a fourth
\* puzzle is there for a fourth attempt to take
StartRuns ==
    { << HappyPuzzle, HappyPuzzle, HappyPuzzle, HappyPuzzle >>,
      << SourceRaises, SourceRaises, SourceRaises, HappyPuzzle >>,
      << ShortPuzzle, MiscountPuzzle, SourceRaises, HappyPuzzle >>,
      << ShortPuzzle, MiscountPuzzle, HappyPuzzle, HappyPuzzle >>,
      << DuplicatePuzzle, HappyPuzzle, HappyPuzzle, HappyPuzzle >>,
      << SourceRaises, TargetPuzzle, HappyPuzzle, HappyPuzzle >>,
      << TinyPuzzle, HappyPuzzle, HappyPuzzle, HappyPuzzle >> }

\* uuid4 in one attempt: the same identifier throughout, or another one from
\* the k-th draw on
DrawsFrom(first, k, then) == [j \in 1..11 |-> IF j < k THEN first ELSE then]
StartDraws ==
    { DrawsFrom("s1", 12, "s1"), DrawsFrom("s2", 12, "s2"),
      DrawsFrom("s1", 2, "s2"), DrawsFrom("s1", 10, "s2"), DrawsFrom("s1", 11, "s2") }
StartDrawRuns ==
    SameDraws(StartDraws)
    \cup { << DrawsFrom("s1", 12, "s1"), DrawsFrom("s1", 12, "s1"),
              DrawsFrom("s2", 12, "s2") >> }

\* the identifiers _create_emergency_game can draw
EmergencyIds == { "e1", "e2" }
StartIds == SessionIds \cup EmergencyIds

StartInit ==
    /\ sessions = << >>
    /\ last_cleanup = 0
    /\ now = 0
    /\ response = NoResponse
    /\ frames = << >>

StartGame == StartWith(StartRuns, StartDrawRuns, EmergencyIds)

\* a stored game is played a little
StartPlay ==
    \E session_id \in StartIds :
        /\ TotalGuesses < MaxStoreGuesses
        /\ SubmitGuess(session_id, glad, NoHintService)

StartNext == StartGame \/ StartPlay

StartSpec == StartInit /\ [][StartNext]_vars

-----------------------------------------------------------------------------
(* Claims about session creation *)

\* a session nobody has played: Active, no guess, four slots all unfound
FreshSession(session) ==
    /\ session.status = ACTIVE
    /\ session.guess_count = 0
    /\ session.guessed_words = << >>
    /\ Len(session.synonyms) = 4
    /\ \A i \in 1..4 : ~session.synonyms[i].found /\ session.synonyms[i].word = NoWord

\* data the dictionary source must not be believed on: nothing, a count of
\* synonyms other than four, or a letter count that is not the word's length
Unusable(puzzle_data) ==
    \/ puzzle_data.target_word = << >>
    \/ Len(puzzle_data.synonyms) # 4
    \/ \E i \in 1..Len(puzzle_data.synonyms) :
          Len(puzzle_data.synonyms[i].word) # puzzle_data.synonyms[i].letter_count

\* the start_new_game() calls the store can get next
StartCalls ==
    { [source_run |-> source_run,
       result     |-> start_new_game(TheStore, source_run, draw_run, emergency_id, now)] :
          source_run \in StartRuns, draw_run \in StartDrawRuns,
          emergency_id \in EmergencyIds }

\* C17: whatever the dictionary source and uuid4 do, start_new_game answers
\* with a started game whose session is in the store afterwards, Active, with
\* no guess made and four unfound slots; and when the three attempts it makes
\* all get unusable data, the game is the emergency game even though a fourth
\* attempt would have got a usable puzzle.
C17_StartTotal ==
    \A call \in StartCalls :
        LET r  == call.result
            id == r.response.game_state.session_id
        IN  /\ r.response.op = "start_new_game"
            /\ r.response.kind = "started"
            /\ r.response.success
            /\ id \in DOMAIN r.store.sessions
            /\ FreshSession(r.store.sessions[id])
            /\ r.response.game_state.target_word = r.store.sessions[id].target_word
            /\ Len(r.response.game_state.synonym_slots) = 4
            /\ (\A k \in 1..3 : Unusable(call.source_run[k]))
                   => /\ id \in EmergencyIds
                      /\ r.store.sessions[id].actual_synonyms = EmergencySynonyms

\* start_new_game has answered with the emergency game, which is in the store
\* and unplayed, after earlier games were started and played
C17_Witness ==
    /\ response.op = "start_new_game"
    /\ response.kind = "started"
    /\ response.game_state.session_id \in EmergencyIds
    /\ response.game_state.session_id \in DOMAIN sessions
    /\ FreshSession(sessions[response.game_state.session_id])
    /\ \E id \in DOMAIN sessions : sessions[id].guess_count > 0

\* the hidden synonyms a game may be played on: four words, no two the same,
\* each of 3 to 15 letters, none the target word
SoundSynonyms(session) ==
    LET words == session.actual_synonyms
    IN  /\ Len(words) = 4
        /\ \A i, j \in 1..Len(words) : i # j => words[i] # words[j]
        /\ \A i \in 1..Len(words) :
              /\ Len(words[i]) >= 3
              /\ Len(words[i]) <= 15
              /\ words[i] # session.target_word

C19_NeverOverwrites ==
    [][response'.op = "start_new_game"
          => /\ response'.game_state.session_id \notin DOMAIN sessions
             /\ \A id \in DOMAIN sessions :
                   id \in DOMAIN sessions' /\ sessions'[id] = sessions[id]]_vars

\* the first of the eleven identifiers of an attempt, the initial one and the
\* ten regenerated, that is not a key of ss; 0 when all eleven are
FirstFree(ss, draws) ==
    IF \A j \in 1..11 : draws[j] \in DOMAIN ss THEN 0
    ELSE CHOOSE j \in 1..11 :
            /\ draws[j] \notin DOMAIN ss
            /\ \A i \in 1..(j - 1) : draws[i] \in DOMAIN ss

\* C20: an attempt that got a valid puzzle fails on its identifier only when
\* the initial identifier and all ten regenerated ones are keys of the store;
\* when one of the eleven is free, the tenth regenerated one included, the
\* attempt stores the session under the first free one.
C20_FailsOnlyAfterTenCollisions ==
    \A draws \in StartDraws :
        LET id   == attempt_id(sessions, HappyPuzzle, draws)
            free == FirstFree(sessions, draws)
        IN  /\ (id = "") <=> (free = 0)
            /\ free # 0 => id = draws[free]

-----------------------------------------------------------------------------
(* Claims about what the callers are shown *)

\* a game-state snapshot with all its parts: target word, four slots with
\* word, letter count and found flag, guess count, status, guessed words
FullSnapshot(game_state) ==
    /\ DOMAIN game_state = {"targetWord", "synonyms", "guessCount", "status", "guessedWords"}
    /\ Len(game_state.synonyms) = 4
    /\ \A i \in 1..4 :
          DOMAIN game_state.synonyms[i] = {"word", "letterCount", "found"}

\* C24: every outcome submit_guess and give_up return, of whatever kind,
\* carries a full game-state snapshot.
C24_EveryOutcomeHasSnapshot ==
    ( /\ response.op \in {"submit_guess", "give_up"}
      /\ response.kind # "value_error" )
    => FullSnapshot(response.game_state)

\* C26: in every stored session, a slot whose word is set holds a word of as
\* many letters as the slot's letter_count.
C26_RevealedWordFitsSlot ==
    \A id \in DOMAIN sessions :
        \A i \in 1..Len(sessions[id].synonyms) :
            sessions[id].synonyms[i].word # NoWord
                => Len(sessions[id].synonyms[i].word) = sessions[id].synonyms[i].letter_count

\* C27: in every state of every stored session, the status is Completed if
\* and only if all 4 slots are found.
C27_CompletedIffFound ==
    \A id \in DOMAIN sessions :
        sessions[id].status = COMPLETED <=> AllSlotsFound(sessions[id])

-----------------------------------------------------------------------------
(* Claims about the expiry sweep (StoreSpec) *)

\* the clock readings at which the next sweep is looked at
SweepTimes == { now + session_cleanup_interval, now + session_cleanup_interval + 1 }

\* C30: a sweep that runs evicts exactly the sessions last active before the
\* clock minus the timeout.  A session whose recorded activity is within the
\* timeout stays; and since every stored session was last active no later
\* than the present, a sweep that runs more than the timeout from now leaves
\* none of the sessions stored now.
C30_SweepEvictsExactly ==
    \A t \in SweepTimes :
        LET swept == _cleanup_expired_sessions(TheStore, t)
        IN  t - last_cleanup >= session_cleanup_interval =>
                \A id \in DOMAIN sessions :
                    /\ ( /\ sessions[id].last_activity # NoActivity
                         /\ t - sessions[id].last_activity <= session_timeout )
                           => id \in DOMAIN swept.sessions
                    /\ t - now > session_timeout => id \notin DOMAIN swept.sessions

-----------------------------------------------------------------------------
(* A whole game (FlowSpec): on a new game the player makes some incorrect   *)
(* guesses, all different, and then submits the hidden synonyms in slot     *)
(* order, as test_complete_successful_game_flow does.                       *)

\* the number of incorrect guesses of one game
MaxWrong == 3

\* texts that match no synonym of "happy"
FlowWrongs == { wrong, bad, Happy, big }

FlowInit ==
    /\ sessions = Started.sessions
    /\ last_cleanup = 0
    /\ now = 0
    /\ response = NoResponse
    /\ frames = << >>

\* the slots of the game that are found
FoundSlots == {i \in 1..4 : sessions["s1"].synonyms[i].found}

\* an incorrect guess that was not made before, while no synonym is found
FlowWrong ==
    \E guess \in FlowWrongs :
        /\ FoundSlots = {}
        /\ Len(sessions["s1"].guessed_words) < MaxWrong
        /\ ~InList(GuessRequest("s1", guess).guess, sessions["s1"].guessed_words)
        /\ SubmitGuess("s1", guess, NoHintService)

\* the hidden synonym of the first slot not found
FlowSynonym ==
    /\ sessions["s1"].status = ACTIVE
    /\ \E i \in 1..4 :
          /\ FoundSlots = 1..(i - 1)
          /\ SubmitGuess("s1", sessions["s1"].actual_synonyms[i], NoHintService)

FlowNext == FlowWrong \/ FlowSynonym

FlowSpec == FlowInit /\ [][FlowNext]_vars

\* the guesses of the game so far that are none of the four synonyms
WrongsMade ==
    {i \in 1..Len(sessions["s1"].guessed_words) :
        \A j \in 1..4 : sessions["s1"].guessed_words[i] # CuratedHappy[j]}

\* C28: after any number of distinct incorrect guesses on a new game, each of
\* the four hidden synonyms, submitted once in slot order, is accepted; the
\* status is Active after the first three and Completed after the fourth, and
\* guess_count is the number of incorrect guesses plus the number of synonyms
\* submitted, which is the incorrect guesses plus 4 at the end.
C28_FullGameFlow ==
    LET k == Cardinality(FoundSlots)
    IN  /\ FoundSlots = 1..k
        /\ sessions["s1"].guess_count = Cardinality(WrongsMade) + k
        /\ sessions["s1"].status = IF k = 4 THEN COMPLETED ELSE ACTIVE
        /\ k < 4 =>
              LET r == SubmitCall(TheStore, "s1", CuratedHappy[k + 1], NoHintService, now)
              IN  /\ r.response.success
                  /\ r.response.kind = IF k = 3 THEN "completed" ELSE "correct"
                  /\ r.store.sessions["s1"].synonyms[k + 1].found
                  /\ r.store.sessions["s1"].guess_count = Cardinality(WrongsMade) + k + 1

\* a game of three incorrect guesses has been completed with the fourth synonym
C28_Witness ==
    /\ response.op = "submit_guess"
    /\ response.kind = "completed"
    /\ sessions["s1"].status = COMPLETED
    /\ Cardinality(WrongsMade) = 3
    /\ sessions["s1"].guess_count = 7

-----------------------------------------------------------------------------
(* Two games on the same target word (TwinSpec): the sessions differ in     *)
(* their hidden synonyms only, word for word of the same length, and are    *)
(* given the same guesses.                                                  *)

jovial   == <<"j","o","v","i","a","l">>
ecstatic == <<"e","c","s","t","a","t","i","c">>
content  == <<"c","o","n","t","e","n","t">>

\* "happy" with other synonyms of the lengths of CuratedHappy; the third is
\* the same word
TwinPuzzle == PuzzleOf(<< jovial, ecstatic, glad, content >>)

\* the texts submitted to both games
TwinGuesses == { wrong, Happy, glad, joyful, jovial }

\* the first game under "s1", the second under "s2"
TwinStarted ==
    start_new_game(Started, << TwinPuzzle, TwinPuzzle, TwinPuzzle >>,
                   [a \in 1..3 |-> [k \in 1..11 |-> "s2"]], EmergencyId, 0).store

TwinInit ==
    /\ sessions = TwinStarted.sessions
    /\ last_cleanup = 0
    /\ now = 0
    /\ response = NoResponse
    /\ frames = << >>

\* the same guess is submitted to the first game and then to the second
TwinSubmit ==
    \E guess \in TwinGuesses :
        /\ sessions["s1"].guess_count < MaxWrong
        /\ LET first  == SubmitCall(TheStore, "s1", guess, NoHintService, now)
               second == SubmitCall(first.store, "s2", guess, NoHintService, now)
           IN  /\ sessions' = second.store.sessions
               /\ last_cleanup' = second.store.last_cleanup
               /\ response' = second.response
               /\ UNCHANGED <<now, frames>>

TwinNext == TwinSubmit

TwinSpec == TwinInit /\ [][TwinNext]_vars

\* two Active sessions that are the same but for the hidden synonyms of
\* unfound slots, which have the same lengths
Twins(a, b) ==
    /\ a.status = ACTIVE
    /\ [a EXCEPT !.actual_synonyms = << >>] = [b EXCEPT !.actual_synonyms = << >>]
    /\ Len(a.actual_synonyms) = Len(b.actual_synonyms)
    /\ \A i \in 1..Len(a.actual_synonyms) :
          /\ Len(a.actual_synonyms[i]) = Len(b.actual_synonyms[i])
          /\ a.synonyms[i].found => a.actual_synonyms[i] = b.actual_synonyms[i]

\* every unfound slot of a snapshot shows no word
UnfoundSlotsBlank(game_state) ==
    \A i \in 1..Len(game_state.synonyms) :
        ~game_state.synonyms[i].found => game_state.synonyms[i].word = NoWord

\* C25: what the caller of an Active game is shown depends on the hidden
\* synonym of an unfound slot through its letter count only.  Two games that
\* differ only in such synonyms get the same start response; a guess rejected
\* in both gets the same snapshot from both, with no word in any unfound
\* slot, and leaves them differing only in such synonyms.
C25_HiddenSynonymsNotShown ==
    /\ \A draws \in DrawSeqs :
          LET run(puzzle) == << puzzle, puzzle, puzzle >>
              started(puzzle) ==
                  start_new_game(Store(<< >>, 0), run(puzzle),
                                 [a \in 1..3 |-> draws], EmergencyId, now).response
          IN  started(HappyPuzzle) = started(TwinPuzzle)
    /\ Twins(sessions["s1"], sessions["s2"]) =>
          \A guess \in TwinGuesses :
              LET first  == SubmitCall(TheStore, "s1", guess, NoHintService, now)
                  second == SubmitCall(TheStore, "s2", guess, NoHintService, now)
              IN  (~first.response.success /\ ~second.response.success) =>
                      /\ first.response.game_state = second.response.game_state
                      /\ UnfoundSlotsBlank(first.response.game_state)
                      /\ Twins(first.store.sessions["s1"], second.store.sessions["s2"])

\* both games have had the same three guesses, one accepted by both and two
\* rejected by both, and still differ in the synonyms of their unfound slots
C25_Witness ==
    /\ Twins(sessions["s1"], sessions["s2"])
    /\ sessions["s1"].guess_count = 3
    /\ sessions["s1"].synonyms[3].found
    /\ sessions["s1"].actual_synonyms # sessions["s2"].actual_synonyms
    /\ response.op = "submit_guess"
    /\ ~response.success

-----------------------------------------------------------------------------
(* Corrupted sessions (CorruptSpec): two games on different target words    *)
(* are in the store; a field of the first is set to None, deleted or cut,   *)
(* or the session is deleted from the store, as the tests of session        *)
(* corruption do, and both games are played on.                             *)

BigPuzzle ==
    [ target_word |-> big,
      synonyms    |-> [i \in 1..4 |-> [word |-> CuratedBig[i],
                                       letter_count |-> Len(CuratedBig[i])]] ]

\* what happens to a stored session
CorruptKinds ==
    { "target_word = None", "synonyms = None", "synonyms = synonyms[:2]",
      "del _actual_synonyms", "status = None", "del status",
      "guess_count = None", "del guess_count",
      "guessed_words = None", "del guessed_words", "synonyms[1] = None" }

Corrupted(session, kind) ==
    CASE kind = "target_word = None"      -> [session EXCEPT !.target_word = << >>]
      [] kind = "synonyms = None"         -> [session EXCEPT !.synonyms = << >>]
      [] kind = "synonyms = synonyms[:2]" -> [session EXCEPT !.synonyms = SubSeq(@, 1, 2)]
      [] kind = "del _actual_synonyms"    -> [session EXCEPT !.actual_synonyms = << >>]
      [] kind = "status = None"           -> [session EXCEPT !.status = NullStatus]
      [] kind = "del status"              -> [session EXCEPT !.status = MissingStatus]
      [] kind = "guess_count = None"      -> [session EXCEPT !.guess_count = NullCount]
      [] kind = "del guess_count"         -> [session EXCEPT !.guess_count = MissingCount]
      [] kind = "guessed_words = None"    -> [session EXCEPT !.guessed_words = NullList]
      [] kind = "del guessed_words"       -> [session EXCEPT !.guessed_words = MissingList]
      [] kind = "synonyms[1] = None"      -> [session EXCEPT !.synonyms[2] = NullSlot]

\* a stored session none of whose fields is None, deleted or cut
Intact(session) ==
    /\ session.target_word # << >>
    /\ Len(session.synonyms) = 4
    /\ ~HasNullSlot(session)
    /\ session.actual_synonyms # << >>
    /\ session.status \notin {NullStatus, MissingStatus}
    /\ session.guess_count \notin {NullCount, MissingCount}
    /\ session.guessed_words \notin {NullList, MissingList}

\* the texts the players of the two games submit: a synonym of each game
CorruptGuesses == { glad, huge }

\* "happy" under "s1" and "big" under "s2"
CorruptStarted ==
    start_new_game(Started, << BigPuzzle, BigPuzzle, BigPuzzle >>,
                   [a \in 1..3 |-> [k \in 1..11 |-> "s2"]], EmergencyId, 0).store

CorruptInit ==
    /\ sessions = CorruptStarted.sessions
    /\ last_cleanup = 0
    /\ now = 0
    /\ response = NoResponse
    /\ frames = << >>

\* a field of the first game goes bad
Corrupt ==
    \E kind \in CorruptKinds :
        /\ "s1" \in DOMAIN sessions
        /\ Intact(sessions["s1"])
        /\ sessions' = [sessions EXCEPT !["s1"] = Corrupted(@, kind)]
        /\ UNCHANGED <<last_cleanup, now, response, frames>>

\* del agent.sessions[session_id] on the first game
Remove ==
    /\ "s1" \in DOMAIN sessions
    /\ sessions' = Discard(TheStore, "s1").sessions
    /\ UNCHANGED <<last_cleanup, now, response, frames>>

CorruptSubmit ==
    \E session_id \in SessionIds, guess \in CorruptGuesses :
        /\ \A id \in DOMAIN sessions : sessions[id].guess_count < MaxStoreGuesses
        /\ SubmitGuess(session_id, guess, NoHintService)

CorruptGiveUp == \E session_id \in SessionIds : GiveUp(session_id)

CorruptNext == Corrupt \/ Remove \/ CorruptSubmit \/ CorruptGiveUp

CorruptSpec == CorruptInit /\ [][CorruptNext]_vars

-----------------------------------------------------------------------------
(* Claims about corrupted sessions (CorruptSpec) *)

\* the calls a player makes on a session: a submission or a give-up
PlayerCalls == { << "submit_guess", glad >>, << "submit_guess", wrong >>,
                 << "give_up", << >> >> }

\* the call made on session_id at clock t, run to its return on store st
CallOn(st, session_id, call, t) ==
    IF call[1] = "submit_guess"
    THEN SubmitCall(st, session_id, call[2], NoHintService, t)
    ELSE GiveUpCall(st, session_id, t)

\* a stored session beyond recovery: its slots are not four, or its slots or
\* its target word are missing
Unrecoverable(session) ==
    \/ session.target_word = << >>
    \/ Len(session.synonyms) # 4

\* C21: a call that fetches an unrecoverable stored session removes it from
\* the store and reports not-found, and a later submit_guess or give_up on
\* that id reports not-found again.
C21_UnrecoverableRemoved ==
    \A id \in DOMAIN sessions :
        Unrecoverable(sessions[id]) =>
            \A first \in PlayerCalls, later \in PlayerCalls :
                LET r1 == CallOn(TheStore, id, first, now)
                    r2 == CallOn(r1.store, id, later, now)
                IN  /\ r1.response.kind = "not_found"
                    /\ id \notin DOMAIN r1.store.sessions
                    /\ r2.response.kind = "not_found"
                    /\ id \notin DOMAIN r2.store.sessions

\* the first game, played and then cut to two slots, is in the store, and a
\* submission on it reports not-found
C21_Witness ==
    /\ "s1" \in DOMAIN sessions
    /\ Len(sessions["s1"].synonyms) = 2
    /\ sessions["s1"].guess_count > 0
    /\ SubmitCall(TheStore, "s1", glad, NoHintService, now).response.kind = "not_found"

\* what a game consists of: all of a session but the time of its last activity
Game(session) ==
    [ target_word     |-> session.target_word,
      synonyms        |-> session.synonyms,
      actual_synonyms |-> session.actual_synonyms,
      guess_count     |-> session.guess_count,
      guessed_words   |-> session.guessed_words,
      status          |-> session.status ]

\* the stores a submit_guess, a give_up, a corruption or a removal that
\* concerns session a leaves, at clock t
StoresAfter(a, t) ==
    { CallOn(TheStore, a, call, t).store : call \in PlayerCalls }
    \cup { Store([id \in (DOMAIN sessions) \ {a} |-> sessions[id]], last_cleanup) }
    \cup IF a \in DOMAIN sessions /\ Intact(sessions[a])
         THEN { Store([sessions EXCEPT ![a] = Corrupted(@, kind)], last_cleanup) :
                   kind \in CorruptKinds }
         ELSE { }

\* the session's recorded activity is longer ago than the timeout at clock t
Expired(session, t) ==
    /\ session.last_activity # NoActivity
    /\ t - session.last_activity > session_timeout

\* C22: whatever happens to session A, a submit_guess, a give_up, a
\* corruption or a removal, now or when the sweep is due, a stored session B
\* other than A that is not expired stays in the store with its target word,
\* slots, hidden synonyms, guess_count, guessed_words and status unchanged.
C22_SessionsIndependent ==
    \A a \in SessionIds, b \in DOMAIN sessions :
        \A t \in {now, now + session_cleanup_interval, now + session_cleanup_interval + 1} :
            (a # b /\ ~Expired(sessions[b], t)) =>
                \A after \in StoresAfter(a, t) :
                    /\ b \in DOMAIN after.sessions
                    /\ Game(after.sessions[b]) = Game(sessions[b])

\* a call on the corrupted first game has removed it, and the second game,
\* played before, is in the store
C22_Witness ==
    /\ response.kind = "not_found"
    /\ "s1" \notin DOMAIN sessions
    /\ "s2" \in DOMAIN sessions
    /\ sessions["s2"].guess_count > 0
    /\ sessions["s2"].synonyms[2].found

glade == <<"g","l","a","d","e">>
hug   == <<"h","u","g">>

\* the hidden synonyms of both games, and a misspelling of one of each
IsolationGuesses ==
    { CuratedHappy[i] : i \in 1..4 } \cup { CuratedBig[i] : i \in 1..4 } \cup { glade, hug }

\* the guess is one of the session's own hidden synonyms, or within two
\* edits of one
MatchesOwn(session, guess) ==
    \E i \in 1..Len(session.actual_synonyms) :
        Levenshtein(guess, session.actual_synonyms[i]) <= 2

\* C23: a guess submitted against a session is accepted only if it matches
\* one of that session's own hidden synonyms exactly or closely; a guess that
\* matches none of them, though it is a synonym of the other game or close to
\* one, is rejected and changes no slot.
C23_OwnSynonymsOnly ==
    \A b \in DOMAIN sessions :
        (Intact(sessions[b]) /\ sessions[b].status = ACTIVE) =>
            \A guess \in IsolationGuesses :
                LET r == SubmitCall(TheStore, b, guess, NoHintService, now)
                IN  /\ r.response.success => MatchesOwn(sessions[b], guess)
                    /\ ~MatchesOwn(sessions[b], guess) =>
                          /\ ~r.response.success
                          /\ r.response.kind \in {"incorrect", "duplicate"}
                          /\ r.store.sessions[b].synonyms = sessions[b].synonyms
                          /\ r.store.sessions[b].status = ACTIVE

\* "glad", a hidden synonym of the first game, was submitted against the
\* second and rejected; no slot of the second game is found
C23_Witness ==
    /\ {"s1", "s2"} \subseteq DOMAIN sessions
    /\ InList(glad, sessions["s1"].actual_synonyms)
    /\ response.op = "submit_guess"
    /\ response.kind = "incorrect"
    /\ response.game_state.targetWord = big
    /\ sessions["s2"].guessed_words = << glad >>
    /\ \A i \in 1..4 : ~sessions["s2"].synonyms[i].found

\* the kinds of outcome object the two handlers return
OutcomeKinds ==
    { "not_found", "not_active", "invalid", "target", "duplicate", "completed",
      "correct", "incorrect", "given_up", "error" }

\* the calls a caller can make on a session id: submit_guess with a request
\* that was constructed, and give_up
CallFrames(session_id) ==
    { SubmitFrame(session_id, GuessRequest(session_id, guess).guess, NoHintService) :
          guess \in { g \in { glad, huge, wrong, Happy, big } :
                          GuessRequest(session_id, g).error = "ok" } }
    \cup { GiveUpFrame(session_id) }

\* C29: submit_guess and give_up never raise to their caller: for every
\* session id, stored or not, and every stored session state, also one with
\* missing or null fields, each call runs to its return and returns an
\* outcome object with a non-empty message.
C29_NeverRaises ==
    \A session_id \in (DOMAIN sessions) \cup { "s1", "s2", "unknown" } :
        \A f \in CallFrames(session_id) :
            \A t \in { now, now + session_timeout + 1 } :
                LET r == Run(TheStore, f, t)
                IN  /\ r.frame.pc = "done"
                    /\ r.frame.kind \in OutcomeKinds
                    /\ message(r.frame) # ""

\* a call on a stored session with a null or missing field was answered with
\* the generic outcome
C29_Witness ==
    /\ "s1" \in DOMAIN sessions
    /\ ~Intact(sessions["s1"])
    /\ response.kind = "error"
    /\ response.game_state = EmptyState

-----------------------------------------------------------------------------
(* A game whose hidden synonyms resemble each other (SlotSpec): "glad" and  *)
(* "glade" are each a close match of the other, and "glads" of both.        *)

glads == <<"g","l","a","d","s">>

NearPuzzle_words == << glad, glade, joyful, pleased >>

NearPuzzle == PuzzleOf(NearPuzzle_words)

\* the texts submitted
SlotGuesses == { glad, glade, glads, joyful, wrong, Happy }

SlotStarted ==
    start_new_game(Store(<< >>, 0), << NearPuzzle, NearPuzzle, NearPuzzle >>,
                   [a \in 1..3 |-> [k \in 1..11 |-> "s1"]], EmergencyId, 0).store

SlotInit ==
    /\ sessions = SlotStarted.sessions
    /\ last_cleanup = 0
    /\ now = 0
    /\ response = NoResponse
    /\ frames = << >>

SlotSubmit ==
    \E guess \in SlotGuesses :
        /\ sessions["s1"].guess_count < MaxWrong
        /\ SubmitGuess("s1", guess, NoHintService)

SlotGiveUp == GiveUp("s1")

\* the session loses its hidden synonyms; the next fetch regenerates them
\* from the target word
SlotLose ==
    /\ sessions["s1"].actual_synonyms # << >>
    /\ sessions' = [sessions EXCEPT !["s1"] = Corrupted(@, "del _actual_synonyms")]
    /\ UNCHANGED <<last_cleanup, now, response, frames>>

SlotNext == SlotSubmit \/ SlotGiveUp \/ SlotLose

SlotSpec == SlotInit /\ [][SlotNext]_vars

\* the slots of the session that differ between two stores
ChangedSlots(before, after) ==
    {i \in 1..4 : after.synonyms[i] # before.synonyms[i]}

\* the unfound slots whose own hidden synonym the guess matches
Eligible(session, hidden, guess) ==
    {i \in 1..4 :
        /\ ~session.synonyms[i].found
        /\ \/ Lower(guess) = Lower(hidden[i])
           \/ _is_close_match(Lower(guess), Lower(hidden[i]))}

\* C31: when a guess is accepted, the slot it fills is the lowest-index slot
\* that is unfound and whose own hidden synonym matches the guess exactly or
\* closely; no other slot changes, and a slot that is found is not reassigned.
C31_LowestMatchingSlot ==
    \A guess \in SlotGuesses :
        LET before == sessions["s1"]
            r      == SubmitCall(TheStore, "s1", guess, NoHintService, now)
            after  == r.store.sessions["s1"]
            open   == Eligible(before, after.actual_synonyms, guess)
        IN  r.response.success =>
               /\ \A i \in 1..4 :
                     before.synonyms[i].found => after.synonyms[i] = before.synonyms[i]
               /\ open = {} => ChangedSlots(before, after) = {}
               /\ open # {} =>
                     LET lowest == CHOOSE i \in open : \A j \in open : i <= j
                     IN  /\ ChangedSlots(before, after) = {lowest}
                         /\ after.synonyms[lowest].found
                         /\ after.synonyms[lowest].word = Lower(guess)

\* "glade" was accepted while the slots of "glad" and of "glade" were both
\* open, and it is the slot of "glad" that holds it
C31_Witness ==
    /\ response.kind = "correct"
    /\ sessions["s1"].guessed_words = << glade >>
    /\ sessions["s1"].actual_synonyms = NearPuzzle_words
    /\ sessions["s1"].synonyms[1].word = glade
    /\ ~sessions["s1"].synonyms[2].found

\* C32: every submit_guess outcome that reports the guess as accepted has
\* changed exactly one slot, from unfound to found; no accepted guess leaves
\* all slots as they were.
C32_AcceptedFillsOneSlot ==
    \A guess \in SlotGuesses \cup { joyfull } :
        LET before == sessions["s1"]
            r      == SubmitCall(TheStore, "s1", guess, NoHintService, now)
            after  == r.store.sessions["s1"]
        IN  r.response.success =>
               \E i \in 1..4 :
                   /\ ChangedSlots(before, after) = {i}
                   /\ ~before.synonyms[i].found
                   /\ after.synonyms[i].found

\* C33: slot state is monotonic: over submit_guess, give_up and the fetch
\* that regenerates lost hidden synonyms, a slot that is found stays found,
\* and a word a slot holds never changes.
C33_SlotsMonotonic ==
    [][ \A i \in 1..4 :
           LET slot == sessions["s1"].synonyms[i]
           IN  /\ slot.found => sessions'["s1"].synonyms[i].found
               /\ slot.word # NoWord => sessions'["s1"].synonyms[i].word = slot.word ]_vars

\* the first slot was filled by the spelling "glade" of its synonym "glad",
\* and holds it after the hidden synonyms were regenerated and the game given up
C33_Witness ==
    /\ response.op = "give_up"
    /\ sessions["s1"].status = GIVEN_UP
    /\ sessions["s1"].actual_synonyms = CuratedHappy
    /\ sessions["s1"].synonyms[1].word = glade
    /\ \A i \in 1..4 : sessions["s1"].synonyms[i].found

\* the calls made on the game of SlotSpec or on an identifier not stored
SlotCalls ==
    { << "submit_guess", id, guess >> : id \in {"s1", "unknown"}, guess \in SlotGuesses }
    \cup { << "give_up", id, << >> >> : id \in {"s1", "unknown"} }

\* the store and response after one of SlotCalls
AfterCall(call) ==
    IF call[1] = "submit_guess"
    THEN SubmitCall(TheStore, call[2], call[3], NoHintService, now)
    ELSE GiveUpCall(TheStore, call[2], now)

\* C34: guess_count never decreases and changes only through submit_guess on
\* an Active session, by exactly 1 per call whether the guess is accepted,
\* rejected, a duplicate or the target word; give_up, a call on an unknown
\* identifier, a submission to a game that is over and the regeneration of
\* hidden synonyms leave it unchanged.
C34_GuessCountSteps ==
    \A call \in SlotCalls :
        LET before == sessions["s1"]
            r      == AfterCall(call)
            after  == r.store.sessions["s1"]
        IN  /\ "s1" \in DOMAIN r.store.sessions
            /\ IF call[1] = "submit_guess" /\ call[2] = "s1" /\ before.status = ACTIVE
               THEN /\ after.guess_count = before.guess_count + 1
                    /\ r.response.kind \in {"correct", "completed", "incorrect",
                                            "duplicate", "target"}
               ELSE /\ after.guess_count = before.guess_count
                    /\ r.response.kind \in {"not_found", "not_active", "given_up"}

\* a duplicate was counted: three submissions, two distinct guesses
C34_Witness ==
    /\ response.kind = "duplicate"
    /\ sessions["s1"].guess_count = 3
    /\ Len(sessions["s1"].guessed_words) = 2

\* C35: guessed_words behaves as a set: after any sequence of submissions,
\* repeated submissions of the target word included, no normalized guess
\* occurs in guessed_words more than once.
C35_GuessedWordsDistinct ==
    \A i, j \in 1..Len(sessions["s1"].guessed_words) :
        i # j => sessions["s1"].guessed_words[i] # sessions["s1"].guessed_words[j]

\* C36: hidden synonyms stay parallel to the slots through recovery: when a
\* fetch regenerates the lost hidden synonyms of a session, created from the
\* dictionary source or as the emergency game, the i-th recovered synonym has
\* as many letters as slot i counts.
C36_RecoveryKeepsSlotOrder ==
    \A id \in DOMAIN sessions :
        LET lost == Put(TheStore, id, Corrupted(sessions[id], "del _actual_synonyms"))
            got  == _get_session_with_recovery(lost, id, now)
        IN  got.found =>
               \A i \in 1..4 :
                   Len(got.store.sessions[id].actual_synonyms[i])
                       = sessions[id].synonyms[i].letter_count

\* C37: give_up reveals and changes nothing else: each slot that was unfound
\* receives its own hidden synonym, each slot that was found keeps the word
\* it had, and guess_count and guessed_words are unchanged.
C37_GiveUpFrame ==
    LET before == sessions["s1"]
        r      == GiveUpCall(TheStore, "s1", now)
        after  == r.store.sessions["s1"]
    IN  /\ r.response.kind = "given_up"
        /\ \A i \in 1..4 :
              /\ after.synonyms[i].found
              /\ after.synonyms[i].letter_count = before.synonyms[i].letter_count
              /\ after.synonyms[i].word = IF before.synonyms[i].found
                                          THEN before.synonyms[i].word
                                          ELSE after.actual_synonyms[i]
        /\ after.guess_count = before.guess_count
        /\ after.guessed_words = before.guessed_words
        /\ after.target_word = before.target_word

\* the game was given up after the spelling "glads" had filled the second
\* slot: that slot holds "glads", the others their hidden synonyms
C37_Witness ==
    /\ response.op = "give_up"
    /\ sessions["s1"].guessed_words = << joyful, glad, glads >>
    /\ sessions["s1"].guess_count = 3
    /\ sessions["s1"].synonyms[1].word = glad
    /\ sessions["s1"].synonyms[2].word = glads
    /\ sessions["s1"].synonyms[4].word = pleased

\* the clock readings at which the next call may arrive
ArrivalTimes ==
    { now, now + session_cleanup_interval, now + session_timeout + 1 }

\* at clock t the session has been inactive for longer than the timeout and
\* a sweep is due
Abandoned(id, t) ==
    /\ id \in DOMAIN sessions
    /\ Expired(sessions[id], t)
    /\ t - last_cleanup >= session_cleanup_interval

\* the stores left by a submit_guess or a give_up arriving at clock t, on any
\* session identifier
StoresAfterPlay(t) ==
    { SubmitCall(TheStore, id, guess, NoHintService, t).store :
          id \in AllIds, guess \in StoreGuesses }
    \cup { GiveUpCall(TheStore, id, t).store : id \in AllIds }

\* the stores left by a start_new_game arriving at clock t
StoresAfterStart(t) ==
    { start_new_game(TheStore, source_run, draw_run, EmergencyId, t).store :
          source_run \in StoreRuns,
          draw_run \in SameDraws({ [k \in 1..11 |-> id] : id \in SessionIds }) }

\* an abandoned session is gone after the next submit_guess or give_up
EvictedByPlay ==
    \A t \in ArrivalTimes, id \in DOMAIN sessions :
        Abandoned(id, t) =>
            \A st \in StoresAfterPlay(t) : id \notin DOMAIN st.sessions

\* C38: every abandoned session is evicted: once a session's inactivity
\* exceeds the timeout and a sweep is due, the next submit_guess or give_up,
\* on any session identifier, removes it from the store; and so does the
\* next start_new_game, so that a workload of start_new_game calls alone
\* does not grow the store without bound.
C38_AbandonedEvicted ==
    /\ EvictedByPlay
    /\ \A t \in ArrivalTimes, id \in DOMAIN sessions :
          Abandoned(id, t) =>
              \A st \in StoresAfterStart(t) : id \notin DOMAIN st.sessions

-----------------------------------------------------------------------------
(* hint_provider_agent.py: the hint provider's analysis.  Texts hold the    *)
(* characters of the model: letters, the space, digits and the hyphen.      *)

\* [a-zA-Z\s\-]: the characters _sanitize_for_analysis keeps
IsSafeChar(c) == IsAlphaChar(c) \/ c \in {" ", "-"}

\* \w of a regular expression
IsWordChar(c) == IsAlphaChar(c) \/ c \in {"1", "2", "_"}

\* text[:n]
Truncated(text, n) == SubSeq(text, 1, IF Len(text) < n THEN Len(text) ELSE n)

\* re.sub(r'\s+', ' ', text).strip()
CollapseSpaces(text) ==
    Strip(SelectSeq([i \in 1..Len(text) |->
                        IF text[i] = " " /\ i > 1 /\ text[i - 1] = " " THEN "" ELSE text[i]],
                    LAMBDA c : c # ""))

\* re.search of (a1|a2|..).*(b1|b2|..): one of firsts, and after it one of seconds
FollowedBy(text, firsts, seconds) ==
    \E a \in firsts, b \in seconds :
        \E i \in 1..Len(text), j \in 1..Len(text) :
            /\ i + Len(a) - 1 <= Len(text)
            /\ SubSeq(text, i, i + Len(a) - 1) = a
            /\ j >= i + Len(a)
            /\ j + Len(b) - 1 <= Len(text)
            /\ SubSeq(text, j, j + Len(b) - 1) = b

\* re.search of \b(w1|w2|..)\b: one of words between word boundaries
WholeWord(text, words) ==
    \E word \in words :
        \E i \in 1..Len(text) :
            /\ i + Len(word) - 1 <= Len(text)
            /\ SubSeq(text, i, i + Len(word) - 1) = word
            /\ i = 1 \/ ~IsWordChar(text[i - 1])
            /\ i + Len(word) - 1 = Len(text) \/ ~IsWordChar(text[i + Len(word)])

\* suspicious_patterns of _sanitize_for_analysis, searched with re.IGNORECASE
suspicious_patterns(text) ==
    \/ FollowedBy(Lower(text),
          { <<"i","g","n","o","r","e">>, <<"f","o","r","g","e","t">>, <<"d","i","s","r","e","g","a","r","d">> },
          { <<"p","r","e","v","i","o","u","s">>, <<"a","b","o","v","e">>, <<"i","n","s","t","r","u","c","t","i","o","n">> })
    \/ FollowedBy(Lower(text),
          { <<"s","y","s","t","e","m">>, <<"a","s","s","i","s","t","a","n","t">>, <<"a","i">> },
          { <<"p","r","o","m","p","t">>, <<"i","n","s","t","r","u","c","t","i","o","n">>, <<"r","o","l","e">> })
    \/ FollowedBy(Lower(text),
          { <<"t","e","l","l">>, <<"s","h","o","w">>, <<"r","e","v","e","a","l">> },
          { <<"s","e","c","r","e","t">>, <<"p","a","s","s","w","o","r","d">>, <<"k","e","y">> })
    \/ FollowedBy(Lower(text),
          { <<"e","x","e","c","u","t","e">>, <<"r","u","n">>, <<"e","v","a","l">> },
          { <<"c","o","d","e">>, <<"s","c","r","i","p","t">>, <<"c","o","m","m","a","n","d">> })
    \/ FollowedBy(Lower(text),
          { <<"s","q","l">>, <<"d","a","t","a","b","a","s","e">>, <<"t","a","b","l","e">> },
          { <<"s","e","l","e","c","t">>, <<"i","n","s","e","r","t">>, <<"u","p","d","a","t","e">>, <<"d","e","l","e","t","e">> })
    \/ WholeWord(Lower(text), { <<"s","c","r","i","p","t">>, <<"j","a","v","a","s","c","r","i","p","t">>, <<"e","v","a","l">> })

\* HintProviderAgent._sanitize_for_analysis
_sanitize_for_analysis(text) ==
    IF text = << >> THEN << >>
    ELSE LET cut == Truncated(Strip(text), 50)
         IN  IF suspicious_patterns(cut) THEN << >>
             ELSE CollapseSpaces(SelectSeq(cut, IsSafeChar))

\* HintProviderAgent._sanitize_for_display
_sanitize_for_display(text) ==
    IF text = << >> THEN << >>
    ELSE CollapseSpaces(SelectSeq(Truncated(Strip(text), 50), IsSafeChar))

\* HintProviderAgent._get_common_synonyms
_get_common_synonyms(target_word) ==
    CASE Lower(target_word) = <<"h","a","p","p","y">> ->
            << <<"j","o","y","f","u","l">>, <<"c","h","e","e","r","f","u","l">>, <<"g","l","a","d">>, <<"p","l","e","a","s","e","d">>, <<"c","o","n","t","e","n","t">>, <<"d","e","l","i","g","h","t","e","d">> >>
      [] Lower(target_word) = <<"f","a","s","t">> ->
            << <<"q","u","i","c","k">>, <<"r","a","p","i","d">>, <<"s","w","i","f","t">>, <<"s","p","e","e","d","y">>, <<"h","a","s","t","y">>, <<"b","r","i","s","k">> >>
      [] Lower(target_word) = <<"b","i","g">> ->
            << <<"l","a","r","g","e">>, <<"h","u","g","e">>, <<"e","n","o","r","m","o","u","s">>, <<"m","a","s","s","i","v","e">>, <<"g","i","a","n","t">>, <<"v","a","s","t">> >>
      [] Lower(target_word) = <<"s","m","a","r","t">> ->
            << <<"c","l","e","v","e","r">>, <<"b","r","i","g","h","t">>, <<"w","i","s","e">>, <<"b","r","i","l","l","i","a","n","t">>, <<"i","n","t","e","l","l","i","g","e","n","t">>, <<"s","h","a","r","p">> >>
      [] Lower(target_word) = <<"c","o","l","d">> ->
            << <<"c","h","i","l","l","y">>, <<"f","r","e","e","z","i","n","g">>, <<"i","c","y">>, <<"f","r","i","g","i","d">>, <<"f","r","o","s","t","y">>, <<"c","o","o","l">> >>
      [] Lower(target_word) = <<"l","o","u","d">> ->
            << <<"n","o","i","s","y">>, <<"b","o","o","m","i","n","g">>, <<"t","h","u","n","d","e","r","o","u","s">>, <<"d","e","a","f","e","n","i","n","g">>, <<"b","l","a","r","i","n","g">>, <<"r","o","a","r","i","n","g">> >>
      [] Lower(target_word) = <<"s","m","a","l","l">> ->
            << <<"t","i","n","y">>, <<"l","i","t","t","l","e">>, <<"m","i","n","i","a","t","u","r","e">>, <<"p","e","t","i","t","e">>, <<"c","o","m","p","a","c","t">>, <<"m","i","n","u","t","e">> >>
      [] Lower(target_word) = <<"b","e","a","u","t","i","f","u","l">> ->
            << <<"g","o","r","g","e","o","u","s">>, <<"s","t","u","n","n","i","n","g">>, <<"l","o","v","e","l","y">>, <<"a","t","t","r","a","c","t","i","v","e">>, <<"p","r","e","t","t","y">>, <<"e","l","e","g","a","n","t">> >>
      [] OTHER -> << >>


\* a distance that counts the positions at which the two words differ
_edit_distance_positional(s1, s2) ==
    LET long  == IF Len(s1) < Len(s2) THEN s2 ELSE s1
        short == IF Len(s1) < Len(s2) THEN s1 ELSE s2
    IN  Cardinality({i \in 1..Len(short) : long[i] # short[i]}) + Len(long) - Len(short)

\* the inner loop of _edit_distance: current_row for the character c1
RECURSIVE current_row_of(_, _, _, _)
current_row_of(previous_row, c1, s2, current_row) ==
    IF Len(current_row) = Len(s2) + 1 THEN current_row
    ELSE LET j == Len(current_row)
             insertions    == previous_row[j + 1] + 1
             deletions     == current_row[j] + 1
             substitutions == previous_row[j] + (IF c1 # s2[j] THEN 1 ELSE 0)
         IN  current_row_of(previous_row, c1, s2,
                            Append(current_row, Min3(insertions, deletions, substitutions)))

\* the outer loop of _edit_distance from the i-th character of s1 on
RECURSIVE last_row_from(_, _, _, _)
last_row_from(s1, s2, i, previous_row) ==
    IF i > Len(s1) THEN previous_row
    ELSE last_row_from(s1, s2, i + 1, current_row_of(previous_row, s1[i], s2, << i >>))

\* HintProviderAgent._edit_distance
_edit_distance(s1, s2) ==
    LET long  == IF Len(s1) < Len(s2) THEN s2 ELSE s1
        short == IF Len(s1) < Len(s2) THEN s1 ELSE s2
    IN  IF Len(short) = 0 THEN Len(long)
        ELSE last_row_from(long, short, 1, [j \in 1..(Len(short) + 1) |-> j - 1])[Len(short) + 1]

\* max(1, len(synonym) // 3)
max_distance(synonym) == IF Len(synonym) \div 3 < 1 THEN 1 ELSE Len(synonym) \div 3

\* the answer of detect_misspelling when there is no match; None is << >>
\* for the word and -1 for the distance
NoMisspelling == [is_misspelling |-> FALSE, intended_word |-> << >>, edit_distance |-> -1]

\* the loop of detect_misspelling from the i-th synonym on; best_distance -1
\* is float('inf')
RECURSIVE best_match_from(_, _, _, _, _)
best_match_from(guess_lower, common_synonyms, i, best_match, best_distance) ==
    IF i > Len(common_synonyms)
    THEN [best_match |-> best_match, best_distance |-> best_distance]
    ELSE LET synonym  == common_synonyms[i]
             distance == _edit_distance(guess_lower, Lower(synonym))
         IN  IF /\ distance <= max_distance(synonym)
                /\ (best_distance = -1 \/ distance < best_distance)
             THEN best_match_from(guess_lower, common_synonyms, i + 1, synonym, distance)
             ELSE best_match_from(guess_lower, common_synonyms, i + 1, best_match, best_distance)

\* HintProviderAgent.detect_misspelling (the confidence it also returns is
\* not modelled)
detect_misspelling(guess, target_word) ==
    LET guess_clean  == _sanitize_for_analysis(guess)
        target_clean == _sanitize_for_analysis(target_word)
    IN  IF guess_clean = << >> \/ target_clean = << >> THEN NoMisspelling
        ELSE LET best == best_match_from(Lower(Strip(guess_clean)),
                                         _get_common_synonyms(target_clean),
                                         1, << >>, -1)
             IN  IF best.best_match # << >>
                 THEN [is_misspelling |-> TRUE, intended_word |-> best.best_match,
                       edit_distance |-> best.best_distance]
                 ELSE NoMisspelling

\* HintProviderAgent._is_close_misspelling
_is_close_misspelling(guess, target) ==
    IF Abs(Len(guess) - Len(target)) > 2 THEN FALSE
    ELSE _edit_distance(guess, target) <= max_distance(target)

\* emotion_words, size_words, speed_words, temperature_words
categories ==
    { { <<"h","a","p","p","y">>, <<"s","a","d">>, <<"a","n","g","r","y">>, <<"e","x","c","i","t","e","d">>, <<"c","a","l","m">>, <<"w","o","r","r","i","e","d">> },
      { <<"b","i","g">>, <<"s","m","a","l","l">>, <<"l","a","r","g","e">>, <<"t","i","n","y">>, <<"h","u","g","e">>, <<"l","i","t","t","l","e">> },
      { <<"f","a","s","t">>, <<"s","l","o","w">>, <<"q","u","i","c","k">>, <<"r","a","p","i","d">>, <<"s","l","u","g","g","i","s","h">> },
      { <<"h","o","t">>, <<"c","o","l","d">>, <<"w","a","r","m">>, <<"c","o","o","l">>, <<"f","r","e","e","z","i","n","g">>, <<"b","o","i","l","i","n","g">> } }

\* HintProviderAgent._is_related_concept
_is_related_concept(guess, target) ==
    \E category \in categories : target \in category /\ guess \in category

\* re.sub(suffix + '$', '', word)
WithoutSuffix(word, suffix) ==
    IF /\ Len(word) >= Len(suffix)
       /\ SubSeq(word, Len(word) - Len(suffix) + 1, Len(word)) = suffix
    THEN SubSeq(word, 1, Len(word) - Len(suffix))
    ELSE word

\* HintProviderAgent._is_wrong_form
_is_wrong_form(guess, target) ==
    \E suffix \in { <<"l","y">>, <<"n","e","s","s">>, <<"i","n","g">>, <<"e","d">> } :
        LET guess_root  == WithoutSuffix(guess, suffix)
            target_root == WithoutSuffix(target, suffix)
        IN  guess_root = target_root \/ guess = target_root \/ guess_root = target

\* the first of the common synonyms, from the i-th on, that the guess is a
\* close misspelling of; << >> when there is none
RECURSIVE first_close_from(_, _, _)
first_close_from(guess_lower, common_synonyms, i) ==
    IF i > Len(common_synonyms) THEN << >>
    ELSE IF _is_close_misspelling(guess_lower, Lower(common_synonyms[i]))
         THEN common_synonyms[i]
         ELSE first_close_from(guess_lower, common_synonyms, i + 1)

\* HintProviderAgent.analyze_guess_relationship; confidence in tenths
analyze_guess_relationship(guess, target_word) ==
    LET guess_clean  == _sanitize_for_analysis(guess)
        target_clean == _sanitize_for_analysis(target_word)
        guess_lower  == Lower(Strip(guess_clean))
        target_lower == Lower(Strip(target_clean))
        close        == first_close_from(guess_lower, _get_common_synonyms(target_clean), 1)
    IN  IF guess_clean = << >> \/ target_clean = << >>
        THEN [relationship_type |-> "invalid_input", confidence |-> 10, intended_word |-> << >>]
        ELSE IF guess_lower = target_lower
        THEN [relationship_type |-> "target_word", confidence |-> 10, intended_word |-> << >>]
        ELSE IF close # << >>
        THEN [relationship_type |-> "misspelling", confidence |-> 9, intended_word |-> close]
        ELSE IF _is_related_concept(guess_lower, target_lower)
        THEN [relationship_type |-> "related", confidence |-> 7, intended_word |-> << >>]
        ELSE IF _is_wrong_form(guess_lower, target_lower)
        THEN [relationship_type |-> "wrong_form", confidence |-> 6, intended_word |-> << >>]
        ELSE [relationship_type |-> "unrelated", confidence |-> 8, intended_word |-> << >>]

\* HintProviderAgent.generate_contextual_hint: the text returned, {..} standing
\* for the interpolated words
generate_contextual_hint(guess, target_word, analysis) ==
    LET shown(text) == IF _sanitize_for_display(text) = << >> /\ Strip(text) # << >>
                       THEN Truncated(Strip(text), 20)
                       ELSE _sanitize_for_display(text)
        guess_display  == shown(guess)
        target_display == shown(target_word)
        kind == analysis.relationship_type
    IN  IF guess_display = << >> \/ target_display = << >>
        THEN "Please enter a valid word to get a hint."
        ELSE IF kind = "target_word"
        THEN "You can't use the target word '{target_display}' as a guess! Try finding words that mean the same thing."
        ELSE IF kind = "invalid_input"
        THEN "Please enter a valid word to get a hint."
        ELSE IF kind = "misspelling"
        THEN IF _sanitize_for_display(analysis.intended_word) # << >>
             THEN "Close! Did you mean '{intended_word}'? That would be a great synonym for '{target_display}'."
             ELSE "That looks like it might be a misspelling. Try checking your spelling and think of words that mean the same as '{target_display}'."
        ELSE IF kind = "related"
        THEN "'{guess_display}' is related to '{target_display}' but not quite a synonym. Think of words that mean exactly the same thing."
        ELSE IF kind = "wrong_form"
        THEN "'{guess_display}' is in the right area but try a different form of the word. What's another way to say '{target_display}'?"
        ELSE IF \E word \in { <<"w","r","o","n","g">>, <<"b","a","d">>, <<"s","t","u","p","i","d">>, <<"d","u","m","b">>, <<"t","e","r","r","i","b","l","e">> } : Contains(Lower(guess_display), word)
        THEN "That word isn't related to '{target_display}'. {hints}"
        ELSE "'{guess_display}' isn't related to '{target_display}'. {hints}"

\* HintRequest.__post_init__: the ValueError it raises, or "ok" and the
\* sanitized fields
HintRequest(guess, target_word) ==
    LET _sanitize_input(text) ==
            Truncated(SelectSeq(Strip(text), LAMBDA c : IsAlphaChar(c) \/ c = " "), 50)
    IN  IF guess = << >> \/ target_word = << >>
        THEN [error |-> "Guess and target word cannot be empty",
              guess |-> guess, target_word |-> target_word]
        ELSE [error |-> "ok", guess |-> _sanitize_input(guess),
              target_word |-> _sanitize_input(target_word)]

\* HintResponse.__post_init__: the ValueError it raises, or "ok"; confidence
\* in tenths
HintResponse(hint_text, analysis_type, confidence) ==
    IF hint_text = "" THEN "Hint text cannot be empty"
    ELSE IF analysis_type \notin {"misspelling", "related", "unrelated"}
    THEN "Invalid analysis type"
    ELSE IF ~(0 <= confidence /\ confidence <= 10)
    THEN "Confidence must be between 0.0 and 1.0"
    ELSE "ok"

\* what a call of the hint provider has not returned yet
Pending == [raised |-> FALSE, error |-> "", hint_text |-> "", analysis_type |-> "",
            is_misspelling |-> FALSE, intended_word |-> << >>, edit_distance |-> -1]

\* HintProviderAgent.analyze_hint_request on a constructed request; failure
\* says that one of the analysis methods raises.  The result is the
\* HintResponse returned, or the exception that leaves the method.
analyze_hint_request(request, failure) ==
    LET analysis    == analyze_guess_relationship(request.guess, request.target_word)
        misspelling == detect_misspelling(request.guess, request.target_word)
        final       == IF misspelling.is_misspelling
                       THEN [analysis EXCEPT !.relationship_type = "misspelling",
                                             !.intended_word = misspelling.intended_word]
                       ELSE analysis
        hint_text   == generate_contextual_hint(request.guess, request.target_word, final)
        built       == HintResponse(hint_text, final.relationship_type, final.confidence)
        guess_clean  == _sanitize_for_display(request.guess)
        target_clean == _sanitize_for_display(request.target_word)
        fallback_hint ==
            IF guess_clean = << >> \/ target_clean = << >>
            THEN "Please enter a valid word to get a hint."
            ELSE "'{guess_clean}' is not a synonym of '{target_clean}'. Try thinking of words with similar meanings."
        fallback    == HintResponse(fallback_hint, "error_fallback", 5)
    IN  IF ~failure /\ built = "ok"
        THEN [Pending EXCEPT !.hint_text = hint_text,
                             !.analysis_type = final.relationship_type]
        ELSE IF fallback = "ok"
        THEN [Pending EXCEPT !.hint_text = fallback_hint, !.analysis_type = "error_fallback"]
        ELSE [Pending EXCEPT !.raised = TRUE, !.error = fallback]

-----------------------------------------------------------------------------
(* The hint provider called on its own (ProviderSpec): one call of          *)
(* detect_misspelling or of analyze_hint_request on a guess and a target.   *)

lad         == <<"l","a","d">>
joyf        == <<"j","o","y","f">>
joy         == <<"j","o","y">>
happyly     == <<"h","a","p","p","y","l","y">>
sad         == <<"s","a","d">>
script      == <<"s","c","r","i","p","t">>
frosid      == <<"f","r","o","s","i","d">>
aaring      == <<"a","a","r","i","n","g">>
boaring     == <<"b","o","a","r","i","n","g">>
inteligent  == <<"i","n","t","e","l","i","g","e","n","t">>
intellikeyt == <<"i","n","t","e","l","l","i","k","e","y","t">>
smart       == <<"s","m","a","r","t">>
cold        == <<"c","o","l","d">>
loud        == <<"l","o","u","d">>

\* the guesses handed to the hint provider
ProviderGuesses ==
    { joyful, joyfull, glad, lad, joyf, joy, hug, huge, wrong, bad, happy, Happy,
      happyly, sad, script, glad1, digits, so_glad, blank, frosid, aaring, boaring,
      inteligent, intellikeyt }

\* the target words handed to the hint provider; "wrong" is in no table
ProviderTargets == { happy, Happy, big, smart, cold, loud, wrong }

\* the frame of one call
ProviderFrame(op, guess, target_word, failure) ==
    [ op |-> op, pc |-> "call", guess |-> guess, target_word |-> target_word,
      failure |-> failure, result |-> Pending ]

ProviderInit ==
    /\ sessions = << >>
    /\ last_cleanup = 0
    /\ now = 0
    /\ response = NoResponse
    /\ \E guess \in ProviderGuesses, target_word \in ProviderTargets :
          \/ frames = << ProviderFrame("detect_misspelling", guess, target_word, FALSE) >>
          \/ \E failure \in BOOLEAN :
                frames = << ProviderFrame("analyze_hint_request", guess, target_word, failure) >>

\* detect_misspelling(guess, target_word) runs and returns
DetectMisspelling ==
    /\ frames[1].op = "detect_misspelling"
    /\ frames[1].pc = "call"
    /\ LET found == detect_misspelling(frames[1].guess, frames[1].target_word)
       IN  frames' = << [frames[1] EXCEPT
                           !.pc = "done",
                           !.result = [Pending EXCEPT
                                          !.is_misspelling = found.is_misspelling,
                                          !.intended_word = found.intended_word,
                                          !.edit_distance = found.edit_distance]] >>
    /\ UNCHANGED <<sessions, last_cleanup, now, response>>

\* analyze_hint_request(HintRequest(guess, target_word, [])) runs and returns
\* or raises; a request whose construction raises is not handed over
AnalyzeHintRequest ==
    /\ frames[1].op = "analyze_hint_request"
    /\ frames[1].pc = "call"
    /\ LET request == HintRequest(frames[1].guess, frames[1].target_word)
       IN  /\ request.error = "ok"
           /\ frames' = << [frames[1] EXCEPT
                              !.pc = "done",
                              !.result = analyze_hint_request(request, frames[1].failure)] >>
    /\ UNCHANGED <<sessions, last_cleanup, now, response>>

ProviderNext == DetectMisspelling \/ AnalyzeHintRequest

ProviderSpec == ProviderInit /\ [][ProviderNext]_vars

\* C39: analyze_hint_request never raises for a valid HintRequest: for every
\* relationship type its analysis produces and for any internal analysis
\* failure it returns a HintResponse with non-empty hint text.
C39_ProviderNeverRaises ==
    (frames[1].op = "analyze_hint_request" /\ frames[1].pc = "done") =>
        /\ ~frames[1].result.raised
        /\ frames[1].result.hint_text # ""

\* the known synonyms of the target word that are within their own
\* proportional threshold of the guess, by index
WithinThreshold(guess, known) ==
    {i \in 1..Len(known) :
        Levenshtein(Lower(guess), known[i])
            <= (IF Len(known[i]) \div 3 < 1 THEN 1 ELSE Len(known[i]) \div 3)}

\* detect_misspelling's answer is the one the thresholds and the true edit
\* distance give: a misspelling exactly if some known synonym is within its
\* threshold, and then the nearest of those, the earliest on ties, with its
\* distance
AnswersByDistance(f) ==
    LET known  == _get_common_synonyms(f.target_word)
        within == WithinThreshold(f.guess, known)
        dist(i) == Levenshtein(Lower(f.guess), known[i])
    IN  /\ f.result.is_misspelling <=> within # {}
        /\ within # {} =>
              LET best == CHOOSE i \in within :
                              \A j \in within : dist(i) < dist(j) \/ (dist(i) = dist(j) /\ i <= j)
              IN  /\ f.result.intended_word = known[best]
                  /\ f.result.edit_distance = dist(best)

\* C40: detect_misspelling uses true Levenshtein distance with the
\* proportional threshold max(1, len(synonym) // 3): for every guess made of
\* letters it reports a misspelling iff some known synonym of the target is
\* within its threshold, and then returns the synonym of smallest distance,
\* the earliest in list order on ties, together with that distance.
C40_MisspellingByDistance ==
    LET f == frames[1]
    IN  (/\ f.op = "detect_misspelling"
         /\ f.pc = "done"
         /\ IsAlpha(f.guess)
         /\ IsAlpha(f.target_word)) => AnswersByDistance(f)

\* The part of C40 that holds: for every guess and target word that
\* _sanitize_for_analysis hands on unchanged but for case, the answer is the
\* one the thresholds and the true edit distance give.
SanitizedAnswersByDistance ==
    LET f == frames[1]
    IN  (/\ f.op = "detect_misspelling"
         /\ f.pc = "done"
         /\ _sanitize_for_analysis(f.guess) = Lower(f.guess)
         /\ _sanitize_for_analysis(f.target_word) = Lower(f.target_word)) => AnswersByDistance(f)

\* "frosid" is two edits from "frigid" and two from "frosty", both within
\* their threshold of 2: the earlier one is returned with distance 2
SanitizedTie ==
    /\ frames[1].op = "detect_misspelling"
    /\ frames[1].pc = "done"
    /\ frames[1].guess = frosid
    /\ frames[1].target_word = cold
    /\ frames[1].result.is_misspelling
    /\ frames[1].result.intended_word = <<"f","r","i","g","i","d">>
    /\ frames[1].result.edit_distance = 2

====
